---- MODULE Spec2Model ----
(***************************************************************************)
(* Tiled backward pass of scaled dot-product attention                     *)
(* (xformers/csrc/attention/cuda/fmha/kernel_backward.h).                  *)
(*                                                                         *)
(* One execution unit (thread block) of AttentionBackwardKernel::kernel is *)
(* modelled for one (batch, head) pair: the host-side check_supported, the *)
(* pointer set-up of Params::advance_to_block, the key-tile / query-tile   *)
(* loops of kernel(), and the phases of processBlockIJ.                    *)
(*                                                                         *)
(* Numerical tile contents are abstracted to the list of tile              *)
(* contributions <<query_start, key_start, col>> summed into them, in the  *)
(* order the code adds them; memory that was never written is "garbage"    *)
(* (valid = FALSE) and anything added to garbage stays garbage.            *)
(***************************************************************************)
EXTENDS Integers, Sequences, FiniteSets, TLC

VARIABLES
  T,              \* template arguments of AttentionBackwardKernel
  p,              \* Params
  pc,             \* position of the execution unit
  key_start,      \* kernel(): int32_t key_start
  key_end,        \* kernel(): int32_t key_end
  query_start,    \* kernel(): int32_t query_start
  query_end,      \* kernel(): int32_t query_end
  col,            \* processBlockIJ: column of the running GradV/GradQ/GradK loop
  blk,            \* processBlockIJ: template argument, locals, return position
  output_frags,   \* OutputFragments (gradV, gradK)
  attn,           \* shared_storage.attn_shared_storage(): the probability tile
  zij,            \* shared_storage.zij(): the dropout mask tile
  tmp,            \* shared_storage.tmp_shared_storage(): the score-gradient tile
  grad_query,     \* p.grad_query_ptr slice of this (batch, head)
  grad_key,       \* p.grad_key_ptr slice
  grad_value,     \* p.grad_value_ptr slice
  workspace,      \* the scratch buffer p.workspace points into
  rng_state_init, \* kernel(): curandStatePhilox4_32_10_t rng_state_init
  calls,          \* history: the processBlockIJ calls made so far
  gmem_log,       \* history: GmemTile loads and stores
  epi_log,        \* history: accumulateInGmem calls
  probe,          \* history: stream positions computed for mask elements
  delta,          \* p.delta_ptr slice: row -> number of stores made to it
  di,             \* shared_storage.di(): the delta of the rows of the tile
  sync,           \* accesses since the last __syncthreads(), hazards so far
  grad_bias,      \* history: the tiles stored through p.grad_bias_ptr
  prefetch        \* history: the prologueQkNextIteration calls

vars == <<T, p, pc, key_start, key_end, query_start, query_end, col, blk,
          output_frags, attn, zij, tmp, grad_query, grad_key, grad_value,
          workspace, rng_state_init, calls, gmem_log, epi_log, probe,
          delta, di, sync, grad_bias, prefetch>>

-----------------------------------------------------------------------------
(* Bounds of the model *)

\* number of query tiles of the largest problem
MaxQueryTiles == 2
\* number of key tiles of the largest problem
MaxKeyTiles == 3
\* largest num_batches and num_heads a workspace size is computed for
MaxBatchHeads == 3

-----------------------------------------------------------------------------
(* Arithmetic helpers *)

Min(a, b) == IF a < b THEN a ELSE b

\* C++ integer division truncates toward zero
TruncDiv(a, b) == IF a >= 0 THEN a \div b ELSE -((-a) \div b)

\* gemm_kernel_utils.h
ceil_div(n, m) == (n + m - 1) \div m

\* gemm_kernel_utils.h
align_up(n, m) == ((n + m - 1) \div m) * m

\* largest int32_t
Int32Max == 2147483647

\* x + y of two int32_t, kept to 32 bits (two's complement)
add32(x, y) ==
  IF x >= 0 /\ y >= 0 /\ x > Int32Max - y
    THEN (x - Int32Max - 1) + (y - Int32Max - 1)
  ELSE IF x < 0 /\ y < 0 /\ x < (-Int32Max - 1) - y
    THEN (x + Int32Max + 1) + (y + Int32Max + 1)
  ELSE x + y

RECURSIVE mul32_wrapped(_, _)
\* the low 32 bits of x * y, for y >= 0, by doubling x and halving y
mul32_wrapped(x, y) ==
  IF y = 0 THEN 0
  ELSE add32(IF y % 2 = 1 THEN x ELSE 0, mul32_wrapped(add32(x, x), y \div 2))

\* x * y of two non-negative int32_t as the 32-bit multiply leaves it: the
\* product when it fits, its low 32 bits otherwise (signed overflow is
\* undefined; no int32_t result is the exact product then)
mul32(x, y) ==
  IF x = 0 \/ y = 0 THEN 0
  ELSE IF y <= Int32Max \div x THEN x * y
  ELSE mul32_wrapped(x, y)

-----------------------------------------------------------------------------
(* Compile-time configuration, as functions of the template arguments *)

\* scalar_t_: "hack for avoiding compiling versions that won't work"
scalar_t_bits(t) == IF t.scalar_bits <= 16 THEN t.scalar_bits ELSE 16

MaxKOf(t) == Min(t.kMaxK_, 128)

Supports64x128Of(t) ==
  t.arch >= 80 \/ (t.arch >= 70 /\ scalar_t_bits(t) <= 16)

BlockSizeIOf(t) == IF Supports64x128Of(t) /\ MaxKOf(t) > 64 THEN 128 ELSE 64

IsHalfOf(t) == scalar_t_bits(t) <= 16

OutputInRFOf(t) == IsHalfOf(t) /\ MaxKOf(t) <= BlockSizeIOf(t)

PreloadMmasOf(t) == IsHalfOf(t) /\ t.arch >= 80 /\ OutputInRFOf(t)

BlockSizeJOf(t) == IF PreloadMmasOf(t) /\ MaxKOf(t) > 64 THEN 128 ELSE 64

kWarpSize == 32

kMaxK == MaxKOf(T)
kBlockSizeI == BlockSizeIOf(T)
kBlockSizeJ == BlockSizeJOf(T)
kIsHalf == IsHalfOf(T)
kOutputInRF == OutputInRFOf(T)
kPreloadMmas == PreloadMmasOf(T)
kPrologueQK == kPreloadMmas
kPrologueGV == kPreloadMmas
kPrologueDOV == kPreloadMmas
kPrologueGQ == kPreloadMmas
kPrologueGK == kPreloadMmas
kNumWarpsPerBlock == (kBlockSizeI * kBlockSizeJ) \div (32 * 32)
kNumThreads == kWarpSize * kNumWarpsPerBlock
kApplyDropout == T.kApplyDropout

\* output_accum_t is float, output_t is scalar_t
OutputIsAccumType == scalar_t_bits(T) = 32

kNeedsAccumGradQ == ~OutputIsAccumType
kNeedsAccumGradK == ~kOutputInRF /\ ~OutputIsAccumType
kNeedsAccumGradV == ~kOutputInRF /\ ~OutputIsAccumType

\* GemmType::kMinimumAlignment of DefaultGemmType<ArchTag, scalar_t>
\* (gemm_kernel_utils.h): SIMT 1, Volta half 2, Turing/Ampere half 4
kMinimumAlignment ==
  IF T.arch >= 75 THEN 4 ELSE IF T.arch >= 70 THEN 2 ELSE 1

\* ThreadblockShape::kN of MatmulGradV, MatmulGradQ, MatmulGradK
GradV_kN == kBlockSizeI
GradQ_kN == kBlockSizeJ
GradK_kN == kBlockSizeI

\* MatmulGradQ::AccumTileGmem::kElementsStored =
\*   kNumThreads * FragmentC::kElements, one kBlockSizeI x kBlockSizeJ tile
kElementsStored == kBlockSizeI * kBlockSizeJ

-----------------------------------------------------------------------------
(* Params: workspace layout *)

workspace_elements_gk(q) ==
  IF ~kNeedsAccumGradK THEN 0
  ELSE align_up(q.num_keys, kBlockSizeJ) * align_up(q.head_dim, kBlockSizeI)

workspace_elements_gv(q) ==
  IF ~kNeedsAccumGradV THEN 0
  ELSE align_up(q.num_keys, kBlockSizeJ) *
         align_up(q.head_dim_value, kBlockSizeI)

\* workspace_elements_gq without the early return for a single key tile
workspace_elements_gq_NoSkip(q) ==
  IF ~kNeedsAccumGradQ THEN 0
  ELSE align_up(q.num_queries, kBlockSizeI) * align_up(q.head_dim, kBlockSizeJ)

workspace_elements_gq(q) ==
  IF ~kNeedsAccumGradQ THEN 0
  ELSE IF q.num_keys <= kBlockSizeJ THEN 0
  ELSE align_up(q.num_queries, kBlockSizeI) * align_up(q.head_dim, kBlockSizeJ)

workspace_strideBH(q) ==
  align_up(workspace_elements_gk(q) + workspace_elements_gv(q) +
             workspace_elements_gq(q), 4)

SizeofFloat == 4

workspace_size(q) ==
  q.num_batches * q.num_heads * workspace_strideBH(q) * SizeofFloat

\* advance_to_block placing the dQ area right after the start of the dV one
advance_to_block_Overlap(q) ==
  LET base == (q.batch_id * q.num_heads + q.head_id) * workspace_strideBH(q)
      gv   == base + workspace_elements_gk(q)
      gq   == base + workspace_elements_gv(q)
  IN [q EXCEPT
        !.delta_ptr = (q.batch_id * q.num_heads + q.head_id) * q.num_queries,
        !.dropout_batch_head_rng_offset =
            q.batch_id * mul32(mul32(q.num_heads, q.num_queries), q.num_keys) +
            mul32(q.head_id, mul32(q.num_queries, q.num_keys)),
        !.bias_ptr =
            IF q.bias_ptr # 0
              THEN @ + q.batch_id * q.bias_strideB + q.head_id * q.bias_strideH
              ELSE @,
        !.grad_bias_ptr =
            IF q.grad_bias_ptr # 0
              THEN @ + q.batch_id * q.gB_strideB + q.head_id * q.gB_strideH
              ELSE @,
        !.workspace = base,
        !.workspace_gv = gv,
        !.workspace_gq = gq]

\* advance_to_block taking batch_id + head_id as the index of the unit
advance_to_block_NoHeads(q) ==
  LET base == (q.batch_id + q.head_id) * workspace_strideBH(q)
      gv   == base + workspace_elements_gk(q)
      gq   == gv + workspace_elements_gv(q)
  IN [q EXCEPT
        !.delta_ptr = (q.batch_id + q.head_id) * q.num_queries,
        !.dropout_batch_head_rng_offset =
            q.batch_id * mul32(mul32(q.num_heads, q.num_queries), q.num_keys) +
            mul32(q.head_id, mul32(q.num_queries, q.num_keys)),
        !.bias_ptr =
            IF q.bias_ptr # 0
              THEN @ + q.batch_id * q.bias_strideB + q.head_id * q.bias_strideH
              ELSE @,
        !.grad_bias_ptr =
            IF q.grad_bias_ptr # 0
              THEN @ + q.batch_id * q.gB_strideB + q.head_id * q.gB_strideH
              ELSE @,
        !.workspace = base,
        !.workspace_gv = gv,
        !.workspace_gq = gq]

\* Params::advance_to_block: the fields the model follows. Pointers into the
\* workspace are element offsets from the start of the buffer.
advance_to_block(q) ==
  LET base == (q.batch_id * q.num_heads + q.head_id) * workspace_strideBH(q)
      gv   == base + workspace_elements_gk(q)
      gq   == gv + workspace_elements_gv(q)
  IN [q EXCEPT
        !.delta_ptr = (q.batch_id * q.num_heads + q.head_id) * q.num_queries,
        !.dropout_batch_head_rng_offset =
            q.batch_id * mul32(mul32(q.num_heads, q.num_queries), q.num_keys) +
            mul32(q.head_id, mul32(q.num_queries, q.num_keys)),
        !.bias_ptr =
            IF q.bias_ptr # 0
              THEN @ + q.batch_id * q.bias_strideB + q.head_id * q.bias_strideH
              ELSE @,
        !.grad_bias_ptr =
            IF q.grad_bias_ptr # 0
              THEN @ + q.batch_id * q.gB_strideB + q.head_id * q.gB_strideH
              ELSE @,
        !.workspace = base,
        !.workspace_gv = gv,
        !.workspace_gq = gq]

workspace_gk(q) == q.workspace

-----------------------------------------------------------------------------
\* Params q with other batch and head counts
WithCounts(q, nb, nh) == [q EXCEPT !.num_batches = nb, !.num_heads = nh]

\* Params::getBlocksGrid: dim3(1, num_heads, num_batches)
getBlocksGrid(q) == [x |-> 1, y |-> q.num_heads, z |-> q.num_batches]

\* the blockIdx values of a launch with grid g
BlockIdx(g) ==
  [x : 0 .. (g.x - 1), y : 0 .. (g.y - 1), z : 0 .. (g.z - 1)]

\* the Params of the unit with the given blockIdx: batch_id = blockIdx.z,
\* head_id = blockIdx.y
OfBlock(q, idx) == [q EXCEPT !.batch_id = idx.z, !.head_id = idx.y]

-----------------------------------------------------------------------------
(* Host side: check_supported *)

CHECK_ALIGNED_PTR(ptr, alignment) == ptr % alignment = 0

\* check_supported without the lse_strideM check
check_supported_NoLse(q) ==
  /\ CHECK_ALIGNED_PTR(q.query_ptr, kMinimumAlignment)
  /\ CHECK_ALIGNED_PTR(q.key_ptr, kMinimumAlignment)
  /\ CHECK_ALIGNED_PTR(q.value_ptr, kMinimumAlignment)
  /\ CHECK_ALIGNED_PTR(q.output_ptr, kMinimumAlignment)
  /\ CHECK_ALIGNED_PTR(q.grad_output_ptr, kMinimumAlignment)
  /\ q.q_strideH % kMinimumAlignment = 0
  /\ q.k_strideH % kMinimumAlignment = 0
  /\ q.v_strideH % kMinimumAlignment = 0

check_supported(q) ==
  /\ CHECK_ALIGNED_PTR(q.query_ptr, kMinimumAlignment)
  /\ CHECK_ALIGNED_PTR(q.key_ptr, kMinimumAlignment)
  /\ CHECK_ALIGNED_PTR(q.value_ptr, kMinimumAlignment)
  /\ CHECK_ALIGNED_PTR(q.output_ptr, kMinimumAlignment)
  /\ CHECK_ALIGNED_PTR(q.grad_output_ptr, kMinimumAlignment)
  /\ q.lse_strideM % 8 = 0
  /\ q.q_strideH % kMinimumAlignment = 0
  /\ q.k_strideH % kMinimumAlignment = 0
  /\ q.v_strideH % kMinimumAlignment = 0

-----------------------------------------------------------------------------
(* Tile values *)

\* a cleared accumulator
Zero == [valid |-> TRUE, terms |-> <<>>]

\* memory nobody wrote in this pass
Garbage == [valid |-> FALSE, terms |-> <<>>]

\* mma(gemm_k_iterations, accum, iterator_B, accum): accum += A @ B
mma(acc, term) == [acc EXCEPT !.terms = Append(@, term)]

\* the contribution of tile (qs, ks) to column block c of an output, with the
\* factor the tile was multiplied by elementwise: multiplying by a tile of
\* ones leaves the contribution as it is
Term(qs, ks, c, factor) ==
  IF factor = "ones" THEN <<qs, ks, c>> ELSE <<qs, ks, c, factor>>

\* destination + accumulator
Plus(a, b) == [valid |-> a.valid /\ b.valid, terms |-> a.terms \o b.terms]

Put(f, k, v) == [x \in (DOMAIN f) \cup {k} |-> IF x = k THEN v ELSE f[x]]

\* GmemTile::load
GmemLoad(addr) ==
  IF addr \in DOMAIN workspace THEN workspace[addr] ELSE Garbage

\* GmemTile::store
GmemStore(ws, addr, v) == Put(ws, addr, v)

\* what a destination tile holds
ReadCell(mem, k) ==
  IF k \in DOMAIN mem THEN mem[k].val ELSE Garbage

\* the epilogue adding to the destination whatever first says
accumulateInGmem_AlwaysAdd(mem, row, c, rows, cols, acc, first) ==
  Put(mem, <<row, c>>,
      [val  |-> Plus(ReadCell(mem, <<row, c>>), acc),
       rows |-> rows,
       cols |-> cols])

\* accumulateInGmem: the epilogue writes rows x cols of the accumulator to
\* the destination tile at <<row, c>>: ScaleType::Nothing (overwrite) when
\* first, ScaleType::NoBetaScaling (destination + accumulator) otherwise
accumulateInGmem(mem, row, c, rows, cols, acc, first) ==
  Put(mem, <<row, c>>,
      [val  |-> IF first THEN acc ELSE Plus(ReadCell(mem, <<row, c>>), acc),
       rows |-> rows,
       cols |-> cols])

\* history records; query_start and key_start name the tile being processed
\* (writeFragsToGmem runs after the query loop of its key tile)
EpiEntry(dst, row, c, rows, cols, first) ==
  [dst |-> dst, row |-> row, col |-> c, rows |-> rows, cols |-> cols,
   first |-> first, query_start |-> query_start, key_start |-> key_start,
   in_block |-> (pc \in {"grad_v", "grad_q", "grad_k"})]

GmemEntry(op, area, addr, c) ==
  [op |-> op, area |-> area, addr |-> addr, col |-> c,
   query_start |-> query_start, key_start |-> key_start]

-----------------------------------------------------------------------------
(* Block scheduler helpers *)

\* the first query tile without the causal skip
getQueryStart_NoCausal(ks) == 0

\* the first query tile rounded up instead of down
getQueryStart_RoundUp(ks) ==
  IF p.causal THEN ((ks + kBlockSizeI - 1) \div kBlockSizeI) * kBlockSizeI
  ELSE 0

getQueryStart(ks) ==
  IF p.causal THEN (ks \div kBlockSizeI) * kBlockSizeI ELSE 0

\* incrIteration moving to the first query tile of the next key tile
incrIteration_FromZero(qs, ks) ==
  LET next_query == qs + kBlockSizeI
  IN IF next_query >= p.num_queries
       THEN <<0, ks + kBlockSizeJ>>
       ELSE <<next_query, ks>>

\* incrIteration: <<next_query, next_key>>
incrIteration(qs, ks) ==
  LET next_query == qs + kBlockSizeI
  IN IF next_query >= p.num_queries
       THEN <<getQueryStart(ks + kBlockSizeJ), ks + kBlockSizeJ>>
       ELSE <<next_query, ks>>

-----------------------------------------------------------------------------
(* Probability tile: causal mask *)

\* the mask comparing against the query index alone, without key_start
CausalMasked_NoKeyStart(accum_m, accum_n, qs, ks) == accum_m > accum_n + qs

\* "Apply mask": the accumulator entry (accum_m, accum_n), key row accum_m
\* and query column accum_n of the transposed tile, is set to -infinity
CausalMasked(accum_m, accum_n, qs, ks) == accum_m > accum_n + qs - ks

\* the entry of the probability tile a is exactly 0
NegInf(a, accum_m, accum_n) ==
  a.masked /\ CausalMasked(accum_m, accum_n, a.query_start, a.key_start)

-----------------------------------------------------------------------------
(* Dropout mask tile *)

\* the uniform draws are quantised to k/UniformLevels, k in 1..UniformLevels
\* (curand_uniform returns values in (0, 1]); dropout_prob is
\* p.dropout_prob/UniformLevels
UniformLevels == 4

\* a generator whose uniform numbers lie in [0, 1): 0/UniformLevels ..
\* (UniformLevels - 1)/UniformLevels
Uniform_FromZero(seed, pos) ==
  (pos * 5 + (pos \div 7) + seed * 3) % UniformLevels

\* the value at position pos of the Philox stream of a seed: a fixed function
\* of (seed, pos)
Uniform(seed, pos) == ((pos * 5 + (pos \div 7) + seed * 3) % UniformLevels) + 1

\* curand_init(seed, 0, offset, &state)
curand_init(seed, offset) == [seed |-> seed, pos |-> offset]

\* skipahead(n, &state)
skipahead(n, state) == [state EXCEPT !.pos = @ + n]

\* cutlass::round_nearest
round_nearest(a, b) == ((a + b - 1) \div b) * b

Threads == 0 .. (kNumThreads - 1)

threads_per_row(nqb, nkb) == Min(kNumThreads \div nqb, nkb)

elts_per_thread(nqb, nkb) ==
  round_nearest(ceil_div(nkb, threads_per_row(nqb, nkb)), 4)

thread_i(t, nqb, nkb) == t \div threads_per_row(nqb, nkb)

thread_start_j(t, nqb, nkb) ==
  (t % threads_per_row(nqb, nkb)) * elts_per_thread(nqb, nkb)

\* the thread generates elements at all
ZijActive(t, nqb, nkb) ==
  thread_i(t, nqb, nkb) < nqb /\ thread_start_j(t, nqb, nkb) < nkb

\* the first column the thread's loop does not start a quad at
ZijLoopEnd(t, nqb, nkb) ==
  Min(thread_start_j(t, nqb, nkb) + elts_per_thread(nqb, nkb), nkb)

\* the thread's columns when only the quads that end inside the tile are
\* generated
ZijLastCol_WholeQuads(t, nqb, nkb) ==
  LET s == thread_start_j(t, nqb, nkb)
      e == ZijLoopEnd(t, nqb, nkb)
  IN s + ((e - s) \div 4) * 4 - 1

\* the columns of row thread_i the thread writes: whole quads from
\* thread_start_j while zij_start_col_idx < ZijLoopEnd
ZijLastCol(t, nqb, nkb) ==
  LET s == thread_start_j(t, nqb, nkb)
      e == ZijLoopEnd(t, nqb, nkb)
  IN s + ceil_div(e - s, 4) * 4 - 1

\* the skip computed from the position inside the tile
ZijSkip_TileLocal(t, nqb, nkb, qs, ks) ==
  add32(mul32(thread_i(t, nqb, nkb), p.num_keys), thread_start_j(t, nqb, nkb))

\* the stream position the thread skips ahead to, from curand_state_init
ZijSkip(t, nqb, nkb, qs, ks) ==
  add32(mul32(add32(qs, thread_i(t, nqb, nkb)), p.num_keys),
        add32(ks, thread_start_j(t, nqb, nkb)))

\* dropout_scale * (rand > dropout_prob) as a fraction <<numerator,
\* denominator>>: dropout_scale = 1/(1 - dropout_prob) =
\* UniformLevels/(UniformLevels - p.dropout_prob)
ZijValue(rand) ==
  <<(IF rand > p.dropout_prob THEN UniformLevels ELSE 0),
    UniformLevels - p.dropout_prob>>

\* what thread t stores at column c of its row for tile (qs, ks)
ZijCell(t, c, nqb, nkb, qs, ks) ==
  LET st  == skipahead(ZijSkip(t, nqb, nkb, qs, ks), rng_state_init)
      pos == st.pos + (c - thread_start_j(t, nqb, nkb))
  IN [val |-> ZijValue(Uniform(st.seed, pos)), pos |-> pos,
      tile |-> <<qs, ks>>]

\* an element of the shared-memory tile no thread has written yet
ZijUnwritten == [val |-> <<-1, 1>>, pos |-> -1, tile |-> <<-1, -1>>]

\* zij.at({c, r}): key column c, query row r of the (transposed) tile
ZijAt(z, c, r) == IF z.tile = <<>> THEN ZijUnwritten ELSE z.tile[r][c]

\* thread t writes outside the kBlockSizeJ x kBlockSizeI tile
ZijOverflows(t, nqb, nkb) ==
  ZijLastCol(t, nqb, nkb) >= kBlockSizeJ \/ thread_i(t, nqb, nkb) >= kBlockSizeI

\* what each thread does in the Zij generation: whether it is active, its
\* row and its first and last column
ZijThread(t, nqb, nkb) ==
  [active |-> ZijActive(t, nqb, nkb), i |-> thread_i(t, nqb, nkb),
   first |-> thread_start_j(t, nqb, nkb), last |-> ZijLastCol(t, nqb, nkb)]

\* the function f, evaluated once at every point of its domain
Evaluated(f) == f @@ <<>>

\* the shared-memory tile after the Zij generation of tile (qs, ks): each
\* active thread writes the columns thread_start_j .. ZijLastCol of row
\* thread_i; the writes that land outside the tile are kept apart
GenerateZij(old, nqb, nkb, qs, ks) ==
  CHOOSE z \in UNION {{
      LET tile ==
            [r \in 0 .. (kBlockSizeI - 1) |->
               [c \in 0 .. (kBlockSizeJ - 1) |->
                  LET w == {t \in rows[r] :
                              th[t].first <= c /\ c <= th[t].last}
                  IN IF w # {}
                       THEN ZijCell(CHOOSE t \in w : TRUE, c, nqb, nkb, qs,
                                    ks)
                       ELSE ZijAt(old, c, r)]]
          out ==
            UNION {{<<c, th[t].i>> :
                      c \in {d \in th[t].first .. th[t].last :
                               d >= kBlockSizeJ \/ th[t].i >= kBlockSizeI}} :
                   t \in {u \in Threads : /\ th[u].active
                                           /\ ZijOverflows(u, nqb, nkb)}}
      IN [tile |-> tile, outside |-> old.outside \cup out] :
        rows \in {Evaluated([r \in 0 .. (kBlockSizeI - 1) |->
                               {t \in Threads : /\ th[t].active
                                                /\ th[t].i = r}])}} :
      th \in {Evaluated([t \in Threads |-> ZijThread(t, nqb, nkb)])}} : TRUE

-----------------------------------------------------------------------------
(* Shared storage and block barriers *)

\* MatmulGradK::DefaultMmaFromSmem::kIsTransposedA: GradK takes its first
\* operand from tmp_shared_storage when it holds, from tmpT_shared_storage
\* otherwise. SharedStoragePrologue overlays the two tiles in one union, so
\* only one of them is live there; SharedStorageNoPrologue keeps both.
kIsTransposedA == kPreloadMmas

\* the members of SharedStorage that start at the first byte of the
\* anonymous union (the first member of each of p1, p2, ...)
UnionHeads ==
  IF kPreloadMmas
    THEN {"bias", "attn_shared_storage", "tmpT_shared_storage",
          "tmp_shared_storage", "mm_qk_q"}
    ELSE {"mm_qk_k", "bias", "attn_shared_storage", "gradB_epilogue",
          "tmpT_shared_storage", "gradK_epilogue_final"}

\* the inner unions of SharedStorage
InnerUnions ==
  IF kPreloadMmas
    THEN {{"bias", "attn_shared_storage"},
          {"mm_gradV", "gradV_epilogue"},
          {"tmpT_shared_storage", "tmp_shared_storage"},
          {"gradB_epilogue", "gradQ_epilogue"}}
    ELSE {{"bias", "attn_shared_storage"},
          {"gradV_epilogue", "mm_doivj"},
          {"mm_gradQ", "gradQ_epilogue", "gradQ_epilogue_lastIter"},
          {"mm_gradK", "gradK_epilogue"}}

\* two members of SharedStorage that occupy the same bytes whatever the
\* sizes of the members are
Aliases(a, b) ==
  \/ a = b
  \/ {a, b} \subseteq UnionHeads
  \/ \E u \in InnerUnions : {a, b} \subseteq u

\* a barrier that separates nothing
SyncThreads_None(s) == s

\* __syncthreads(): what was written before it can be read after it, what
\* was read before it can be overwritten after it
SyncThreads(s) ==
  [s EXCEPT !.ready = @ \cup s.dirty, !.dirty = {}, !.used = {},
            !.barriers = @ + 1]

\* threads read the tile r that other threads wrote: a hazard when r or a
\* member aliasing it was written since the last barrier
SmemRead(s, r) ==
  [s EXCEPT !.used = @ \cup {r},
            !.handed = @ \cup ({r} \cap s.ready),
            !.hazards = @ \cup {[kind |-> "raw", region |-> r, other |-> y] :
                                  y \in {x \in s.dirty : Aliases(x, r)}}]

\* threads write the tile r: a hazard when r was read, or a member aliasing
\* it was read or written, since the last barrier
SmemWrite(s, r) ==
  [s EXCEPT !.dirty = @ \cup {r},
            !.ready = @ \ {r},
            !.hazards = @ \cup
              {[kind |-> "war", region |-> r, other |-> y] :
                 y \in {x \in s.used : Aliases(x, r)}} \cup
              {[kind |-> "waw", region |-> r, other |-> y] :
                 y \in {x \in s.dirty : x # r /\ Aliases(x, r)}}]

\* a matmul, prologue or epilogue of the library works in its own storage
\* r, whose internal synchronisation is its own: a hazard when a member of
\* another name aliasing r was read or written since the last barrier
SmemUse(s, r) ==
  [s EXCEPT !.used = @ \cup {r},
            !.hazards = @ \cup
              {[kind |-> "reuse", region |-> r, other |-> y] :
                 y \in {x \in s.used \cup s.dirty : x # r /\ Aliases(x, r)}}]

\* the accesses and barriers evs[i], evs[i + 1], ... in program order
RECURSIVE TrackFrom(_, _, _)
TrackFrom(s, evs, i) ==
  IF i > Len(evs) THEN s
  ELSE CHOOSE r \in
         {TrackFrom(s2, evs, i + 1) :
            s2 \in {CASE evs[i][1] = "sync" -> SyncThreads(s)
                      [] evs[i][1] = "r" -> SmemRead(s, evs[i][2])
                      [] evs[i][1] = "w" -> SmemWrite(s, evs[i][2])
                      [] evs[i][1] = "use" -> SmemUse(s, evs[i][2])}} : TRUE

\* the accesses and barriers of a stretch of code, in program order
Track(s, evs) == CHOOSE r \in {TrackFrom(s, e, 1) : e \in {evs}} : TRUE

\* an event list, or nothing
When(cond, evs) == IF cond THEN evs ELSE <<>>

Barrier == <<"sync", "">>

-----------------------------------------------------------------------------
(* computeDelta, loadDi *)

kKernelComputesDelta == kIsHalf /\ (kOutputInRF \/ T.arch # 70)

\* computeDelta: kNumThreadsPerLine
kNumThreadsPerLine == kNumThreads \div kBlockSizeI

\* computeDelta: laneRow of thread t, with n = kNumThreadsPerLine
laneRow(t, n) == t \div n

\* computeDelta: rowPred, with nq = p.num_queries
rowPred(qs, t, n, nq) == qs + laneRow(t, n) < nq

\* lane ^ i for a power of two i
XorLane(t, i) == IF (t \div i) % 2 = 0 THEN t + i ELSE t - i

\* computeDelta, "reduce between workers": the lanes whose partial sums
\* thread t holds after the steps i = 1, 2, ... below n
RECURSIVE Reduced(_, _)
Reduced(t, n) ==
  IF n = 1 THEN {t}
  ELSE Reduced(t, n \div 2) \cup Reduced(XorLane(t, n \div 2), n \div 2)

\* the threads, of the nt of a block, that work on line l of a tile
LineThreads(l, n, nt) ==
  {t \in (l * n) .. ((l + 1) * n - 1) :
     0 <= t /\ t < nt /\ laneRow(t, n) = l}

\* the stores of the first thread of a line only
DeltaWriters_FirstLane(qs, r, n, nt, nq) ==
  {t \in LineThreads(r - qs, n, nt) : rowPred(qs, t, n, nq) /\ t % n = 0}

\* the threads of computeDelta(p, qs) that store to p.delta_ptr[r]
DeltaWriters(qs, r, n, nt, nq) ==
  {t \in LineThreads(r - qs, n, nt) : rowPred(qs, t, n, nq)}

\* the number of stores to p.delta_ptr[r] made by the loop of kernel(),
\* for (query_start = qs; query_start < p.num_queries; query_start +=
\* kBlockSizeI) computeDelta(p, query_start)
RECURSIVE StoresFrom(_, _, _, _, _, _)
StoresFrom(qs, r, n, nt, nq, I) ==
  IF qs < nq
    THEN Cardinality(DeltaWriters(qs, r, n, nt, nq)) +
         StoresFrom(qs + I, r, n, nt, nq, I)
    ELSE 0

\* p.delta_ptr after the computeDelta loop: for every row stored to, the
\* number of stores
DeltaStores ==
  CHOOSE f \in {[r \in {x \in 0 .. (nq + I - 1) :
                           StoresFrom(0, x, n, nt, nq, I) > 0} |->
                    StoresFrom(0, r, n, nt, nq, I)] :
                  n \in {kNumThreadsPerLine}, nt \in {kNumThreads},
                  nq \in {p.num_queries}, I \in {kBlockSizeI}} : TRUE

\* a thread that executes only the shuffles inside "if (rowPred)"
ShuffleGuard_RowPred(qs, t, n, nq) == n > 1 /\ rowPred(qs, t, n, nq)

\* thread t executes the __shfl_xor_sync of computeDelta(qs): the reduction
\* loop "for (i = 1; i < kNumThreadsPerLine; i *= 2)" is under no
\* condition on the thread
ShuffleGuard(qs, t, n, nq) == n > 1

\* in computeDelta(qs) a warp of W lanes executes __shfl_xor_sync with the
\* mask 0xffffffff while one of its lanes does not
DivergedIn(qs, n, nt, nq, W) ==
  \E w \in 0 .. ((nt \div W) - 1) :
    \E t, u \in (w * W) .. (w * W + W - 1) :
      ShuffleGuard(qs, t, n, nq) /\ ~ShuffleGuard(qs, u, n, nq)

\* the computeDelta calls of kernel() with such a warp
DivergedShuffles ==
  UNION {{qs \in {i * I : i \in 0 .. ((nq - 1) \div I)} :
            DivergedIn(qs, n, nt, nq, W)} :
           n \in {kNumThreadsPerLine}, nt \in {kNumThreads},
           nq \in {p.num_queries}, I \in {kBlockSizeI}, W \in {kWarpSize}}

\* loadDi: di[thread_id] is p.delta_ptr[query_start + thread_id], named by
\* its row, or accum_t(0), written -1; -2 is a row that was never stored
loadDi(qs) ==
  [thread_id \in 0 .. (kBlockSizeI - 1) |->
     IF qs + thread_id < p.num_queries
       THEN IF qs + thread_id \in DOMAIN delta THEN qs + thread_id ELSE -2
       ELSE -1]

-----------------------------------------------------------------------------
(* Host: launch *)

\* the launcher runs kernel() only for Params that check_supported accepts
Launch ==
  /\ pc = "host"
  /\ pc' = IF check_supported(p) THEN "entry" ELSE "rejected"
  /\ UNCHANGED <<prefetch, grad_bias, delta, di, sync, probe, T, p, key_start, key_end, query_start, query_end, col, blk,
                 output_frags, attn, zij, tmp, grad_query, grad_key,
                 grad_value, workspace, rng_state_init, calls, gmem_log,
                 epi_log>>

-----------------------------------------------------------------------------
(* kernel() *)

\* a call prologueQkNextIteration<kForceReloadK>(shared_storage, p, qs, ks):
\* its arguments, and whether it got past the early return
Prefetch(kForceReloadK, qs, ks) ==
  [query_start |-> qs, key_start |-> ks, kForceReloadK |-> kForceReloadK,
   loaded |-> ~(qs >= p.num_queries \/ ks >= p.num_keys)]

\* prologueQkNextIteration<kForceReloadK>: nothing when the tile is out of
\* range, else MatmulQK::Mma::prologue into mm_qk_k (at least when
\* kForceReloadK) and mm_qk_q
prologueQkNextIteration(kForceReloadK, qs, ks) ==
  IF qs >= p.num_queries \/ ks >= p.num_keys THEN <<>>
  ELSE When(kForceReloadK, << <<"use", "mm_qk_k">> >>) \o
       << <<"use", "mm_qk_q">> >>

\* advance_to_block, then kernel() up to the key loop: the first prologue
\* of MatmulQK in prologue mode, computeDelta over
\* every query tile and the barrier after it, curand_init, and
\* key_start = 0, key_end = num_keys / kBlockSizeJ * kBlockSizeJ
KernelEntry ==
  /\ pc = "entry"
  /\ p' = advance_to_block(p)
  /\ rng_state_init' =
       IF kApplyDropout
         THEN curand_init(p.rng_seed,
                          p.rng_offset + p'.dropout_batch_head_rng_offset)
         ELSE rng_state_init
  /\ key_start' = 0
  /\ key_end' = (p.num_keys \div kBlockSizeJ) * kBlockSizeJ
  /\ delta' = IF kKernelComputesDelta THEN DeltaStores ELSE delta
  /\ prefetch' = IF kPrologueQK THEN Append(prefetch, Prefetch(TRUE, 0, 0))
                  ELSE prefetch
  /\ sync' = [Track(sync,
                    When(kPrologueQK, prologueQkNextIteration(TRUE, 0, 0)) \o
                    When(kKernelComputesDelta,
                         << <<"w", "delta">>, Barrier >>))
                EXCEPT !.diverged = IF kKernelComputesDelta
                                      THEN DivergedShuffles ELSE {}]
  /\ pc' = "key_loop"
  /\ UNCHANGED <<grad_bias, di, probe, T, query_start, query_end, col, blk, output_frags, attn, zij,
                 tmp, grad_query, grad_key, grad_value, workspace, calls,
                 gmem_log, epi_log>>

\* the accumulators left as the previous key tile left them
ClearedFrags_Kept == output_frags

\* OutputFragments::clear
ClearedFrags == [gradV |-> Zero, gradK |-> Zero]

\* for (; key_start < key_end; key_start += kBlockSizeJ): loop test and the
\* head of the body
KeyLoop ==
  /\ pc = "key_loop"
  /\ IF key_start < key_end
       THEN /\ output_frags' = ClearedFrags
            /\ query_start' = getQueryStart(key_start)
            /\ query_end' = query_start' +
                 TruncDiv(p.num_queries - query_start', kBlockSizeI) *
                   kBlockSizeI
            /\ pc' = "query_loop"
       ELSE /\ pc' = "last_key"
            /\ UNCHANGED <<output_frags, query_start, query_end>>
  /\ UNCHANGED <<prefetch, grad_bias, delta, di, sync, probe, T, p, key_start, key_end, col, blk, attn, zij, tmp,
                 grad_query, grad_key, grad_value, workspace, rng_state_init,
                 calls, gmem_log, epi_log>>

\* entry of processBlockIJ<skipBoundsChecks>: __syncthreads() and loadDi
Call(skipBoundsChecks, ret) ==
  /\ blk' = [skipBoundsChecks |-> skipBoundsChecks, ret |-> ret,
             isFirstQuery |-> FALSE, isLastQuery |-> FALSE,
             num_queries_in_block |-> 0, num_keys_in_block |-> 0]
  /\ sync' = Track(sync, << Barrier, <<"r", "delta">>, <<"w", "di">> >>)
  /\ di' = loadDi(query_start)
  /\ pc' = "matmul_qk"

\* for (; query_start < query_end; ...) processBlockIJ<true>, and after it
\* "last (partial) query": if (query_start < p.num_queries)
\* processBlockIJ<false>
QueryLoop ==
  /\ pc = "query_loop"
  /\ IF query_start < query_end
       THEN Call(TRUE, "query_inc")
       ELSE IF query_start < p.num_queries
              THEN Call(FALSE, "key_flush")
              ELSE pc' = "key_flush" /\ UNCHANGED <<blk, di, sync>>
  /\ UNCHANGED <<prefetch, grad_bias, delta, probe, T, p, key_start, key_end, query_start, query_end, col,
                 output_frags, attn, zij, tmp, grad_query, grad_key,
                 grad_value, workspace, rng_state_init, calls, gmem_log,
                 epi_log>>

\* the shared storage of the two epilogues of writeFragsToGmem
writeFragsToGmemSmem ==
  << <<"use", "gradV_epilogue_final">>, <<"use", "gradK_epilogue_final">> >>

\* writeFragsToGmem<skipBoundsChecks>: both accumulators through the
\* epilogue with first = true
writeFragsToGmem(skipBoundsChecks) ==
  LET nkb == IF skipBoundsChecks THEN kBlockSizeJ
             ELSE Min(kBlockSizeJ, p.num_keys - key_start)
  IN /\ grad_value' = accumulateInGmem(grad_value, key_start, 0, nkb,
                                       p.head_dim_value, output_frags.gradV,
                                       TRUE)
     /\ grad_key' = accumulateInGmem(grad_key, key_start, 0, nkb, p.head_dim,
                                     output_frags.gradK, TRUE)
     /\ epi_log' = epi_log \o
          << EpiEntry("gv", key_start, 0, nkb, p.head_dim_value, TRUE),
             EpiEntry("gk", key_start, 0, nkb, p.head_dim, TRUE) >>

\* end of the body of the key loop: writeFragsToGmem<true> in
\* output-in-registers mode, and __syncthreads()
KeyFlush ==
  /\ pc = "key_flush"
  /\ IF kOutputInRF
       THEN writeFragsToGmem(TRUE)
       ELSE UNCHANGED <<grad_value, grad_key, epi_log>>
  /\ sync' = Track(sync, When(kOutputInRF, writeFragsToGmemSmem) \o
                         << Barrier >>)
  /\ key_start' = key_start + kBlockSizeJ
  /\ pc' = "key_loop"
  /\ UNCHANGED <<prefetch, grad_bias, delta, di, probe, T, p, key_end, query_start, query_end, col, blk,
                 output_frags, attn, zij, tmp, grad_query, workspace,
                 rng_state_init, calls, gmem_log>>

\* "Last (partial) key": if (key_start != p.num_keys)
LastKey ==
  /\ pc = "last_key"
  /\ IF key_start # p.num_keys
       THEN /\ output_frags' = ClearedFrags
            /\ query_start' = getQueryStart(key_start)
            /\ pc' = "last_query_loop"
       ELSE /\ pc' = "done"
            /\ UNCHANGED <<output_frags, query_start>>
  /\ UNCHANGED <<prefetch, grad_bias, delta, di, sync, probe, T, p, key_start, key_end, query_end, col, blk, attn, zij,
                 tmp, grad_query, grad_key, grad_value, workspace,
                 rng_state_init, calls, gmem_log, epi_log>>

\* the query loop of the last key tile, and writeFragsToGmem<false> after it
LastQueryLoop ==
  /\ pc = "last_query_loop"
  /\ IF query_start < p.num_queries
       THEN /\ Call(FALSE, "last_query_inc")
            /\ UNCHANGED <<grad_value, grad_key, epi_log>>
       ELSE /\ IF kOutputInRF
                 THEN writeFragsToGmem(FALSE)
                 ELSE UNCHANGED <<grad_value, grad_key, epi_log>>
            /\ sync' = Track(sync, When(kOutputInRF, writeFragsToGmemSmem))
            /\ pc' = "done"
            /\ UNCHANGED <<blk, di>>
  /\ UNCHANGED <<prefetch, grad_bias, delta, probe, T, p, key_start, key_end, query_start, query_end, col,
                 output_frags, attn, zij, tmp, grad_query, workspace,
                 rng_state_init, calls, gmem_log>>

-----------------------------------------------------------------------------
(* processBlockIJ *)

\* isFirstQuery without the causal clause
IsFirstQuery_NoCausal(qs, ks) == qs = 0

IsFirstQuery(qs, ks) == qs = 0 \/ (p.causal /\ qs <= ks)

IsLastQuery(qs, ks) == incrIteration(qs, ks)[2] # ks

\* num_queries_in_block without the std::min
NumQueriesInBlock_NoMin(skipBoundsChecks, qs) ==
  IF skipBoundsChecks THEN kBlockSizeI ELSE p.num_queries - qs

NumQueriesInBlock(skipBoundsChecks, qs) ==
  IF skipBoundsChecks THEN kBlockSizeI
  ELSE Min(kBlockSizeI, p.num_queries - qs)

NumKeysInBlock(skipBoundsChecks, ks) ==
  IF skipBoundsChecks THEN kBlockSizeJ
  ELSE Min(kBlockSizeJ, p.num_keys - ks)

\* the probability tile written by accumApplyLSEToSmem: which tile it is and
\* which of its entries the mask set to -infinity
ProbabilityTile(qs, ks) ==
  [query_start |-> qs, key_start |-> ks, masked |-> p.causal,
   factor |-> "ones", scale |-> "one"]

\* the elementwise factor Zij is on the num_queries_in_block x
\* num_keys_in_block elements the matmuls use: "ones" when every one of
\* them is 1 (or when there is no dropout), "zij" otherwise
ZijFactor(nqb, nkb) ==
  IF ~kApplyDropout THEN "ones"
  ELSE IF \A r \in 0 .. (nqb - 1) : \A c \in 0 .. (nkb - 1) :
            LET v == ZijAt(zij, c, r).val IN v[1] = v[2]
    THEN "ones"
  ELSE "zij"

\* locals, MatmulQK, mask, Pij to shared memory, Zij
\* shared storage in the MatmulQK block: the matmul on mm_qk_k and mm_qk_q,
\* the bias tile loaded and added, __syncthreads(), the prologues of GradV
\* and MatmulDOIVJ, the probability tile and the dropout mask written,
\* __syncthreads()
MatmulQKSmem ==
  << <<"use", "mm_qk_k">>, <<"use", "mm_qk_q">> >> \o
  When(p.bias_ptr # 0, << <<"w", "bias">>, <<"r", "bias">> >>) \o
  << Barrier >> \o
  When(kPrologueGV, << <<"use", "mm_gradV">> >>) \o
  When(kPrologueDOV, << <<"use", "mm_doivj">> >>) \o
  << <<"w", "attn_shared_storage">> >> \o
  When(kApplyDropout, << <<"w", "zij">> >>) \o
  << Barrier >>

MatmulQK ==
  /\ pc = "matmul_qk"
  /\ LET nqb == NumQueriesInBlock(blk.skipBoundsChecks, query_start)
         nkb == NumKeysInBlock(blk.skipBoundsChecks, key_start)
     IN /\ blk' = [blk EXCEPT
                     !.isFirstQuery = IsFirstQuery(query_start, key_start),
                     !.isLastQuery = IsLastQuery(query_start, key_start),
                     !.num_queries_in_block = nqb,
                     !.num_keys_in_block = nkb]
        /\ attn' = ProbabilityTile(query_start, key_start)
        /\ zij' = IF kApplyDropout
                    THEN GenerateZij(zij, nqb, nkb, query_start, key_start)
                    ELSE zij
        /\ calls' = Append(calls,
                      [query_start |-> query_start, key_start |-> key_start,
                       skipBoundsChecks |-> blk.skipBoundsChecks,
                       isFirstQuery |-> IsFirstQuery(query_start, key_start),
                       isLastQuery |-> IsLastQuery(query_start, key_start),
                       num_queries_in_block |-> nqb,
                       num_keys_in_block |-> nkb])
  /\ sync' = Track(sync, MatmulQKSmem)
  /\ col' = 0
  /\ pc' = "grad_v"
  /\ UNCHANGED <<prefetch, grad_bias, delta, di, probe, T, p, key_start, key_end, query_start, query_end,
                 output_frags, tmp, grad_query, grad_key, grad_value,
                 workspace, rng_state_init, gmem_log, epi_log>>

\* every column block of dV in the first slot
GradVSlot_OneSlot(c) == p.workspace_gv

\* the slot of the dV accumulator of column block c
GradVSlot(c) == p.workspace_gv + (c \div GradV_kN) * kElementsStored

\* shared storage in one iteration of the GradV loop: __syncthreads(), the
\* matmul reading the probability tile and the dropout mask, with
\* mm_gradV, __syncthreads(), the prologue of the next column, the
\* epilogue; after the last iteration __syncthreads()
GradVSmem(c, epi, last) ==
  << Barrier, <<"r", "attn_shared_storage">> >> \o
  When(kApplyDropout, << <<"r", "zij">> >>) \o
  << <<"use", "mm_gradV">>, Barrier >> \o
  When(kPrologueGV /\ c + GradV_kN < p.head_dim_value,
       << <<"use", "mm_gradV">> >>) \o
  When(epi, << <<"use", "gradV_epilogue">> >>) \o
  When(last, << Barrier >>)

\* one iteration of the GradV loop:
\* for (col = 0; col < (kOutputInRF ? 1 : p.head_dim_value); col += kN)
GradV ==
  /\ pc = "grad_v"
  /\ LET addr  == GradVSlot(col)
         clear == blk.isFirstQuery \/ ~kNeedsAccumGradV
         frag0 == IF kOutputInRF THEN output_frags.gradV
                  ELSE IF clear THEN Zero ELSE GmemLoad(addr)
         frag1 == mma(frag0, Term(attn.query_start, attn.key_start, col,
                                  ZijFactor(blk.num_queries_in_block,
                                            blk.num_keys_in_block)))
         store == ~kOutputInRF /\ kNeedsAccumGradV /\ ~blk.isLastQuery
         epi   == ~kOutputInRF /\ ~store
         first == blk.isFirstQuery \/ kNeedsAccumGradV
         cols  == Min(GradV_kN, p.head_dim_value - col)
         limit == IF kOutputInRF THEN 1 ELSE p.head_dim_value
     IN /\ output_frags' = [output_frags EXCEPT !.gradV = frag1]
        /\ workspace' = IF store THEN GmemStore(workspace, addr, frag1)
                        ELSE workspace
        /\ grad_value' =
             IF epi THEN accumulateInGmem(grad_value, key_start, col,
                                          blk.num_keys_in_block, cols, frag1,
                                          first)
             ELSE grad_value
        /\ gmem_log' = gmem_log \o
             (IF ~kOutputInRF /\ ~clear
                THEN <<GmemEntry("load", "gv", addr, col)>> ELSE <<>>) \o
             (IF store THEN <<GmemEntry("store", "gv", addr, col)>> ELSE <<>>)
        /\ epi_log' = epi_log \o
             (IF epi THEN <<EpiEntry("gv", key_start, col,
                                     blk.num_keys_in_block, cols, first)>>
              ELSE <<>>)
        /\ sync' = Track(sync, GradVSmem(col, epi, col + GradV_kN >= limit))
        /\ IF col + GradV_kN < limit
             THEN col' = col + GradV_kN /\ pc' = "grad_v"
             ELSE col' = 0 /\ pc' = "doivj"
  /\ UNCHANGED <<prefetch, grad_bias, delta, di, probe, T, p, key_start, key_end, query_start, query_end, blk, attn,
                 zij, tmp, grad_query, grad_key, rng_state_init, calls>>

\* the accumulator after "dSij = (dPij - Di) * Pij": dPij is the product
\* with the dropout mask applied, Di the tile loaded by loadDi, Pij the
\* probability tile in shared storage
dSij ==
  [query_start |-> attn.query_start, key_start |-> attn.key_start,
   masked |-> attn.masked,
   factor |-> ZijFactor(blk.num_queries_in_block, blk.num_keys_in_block),
   di |-> di[0], scale |-> "one"]

\* the tile stored after "accum = accum * scale"
BiasGradEpilogue_Scaled(accum) ==
  [addr |-> p.grad_bias_ptr + query_start * p.gB_strideM + key_start,
   strideM |-> p.gB_strideM,
   rows |-> blk.num_queries_in_block, cols |-> blk.num_keys_in_block,
   value |-> [accum EXCEPT !.scale = "p.scale"]]

\* BiasGradEpilogue with the no-op output operator: accum stored at
\* p.grad_bias_ptr + query_start * p.gB_strideM + key_start, extent
\* {num_queries_in_block, num_keys_in_block}
BiasGradEpilogue(accum) ==
  [addr |-> p.grad_bias_ptr + query_start * p.gB_strideM + key_start,
   strideM |-> p.gB_strideM,
   rows |-> blk.num_queries_in_block, cols |-> blk.num_keys_in_block,
   value |-> accum]

\* shared storage in the MatmulDOIVJ block: the matmul on mm_gradV and
\* mm_doivj, __syncthreads(), the prologues of GradQ and GradK, the dropout
\* mask, the probability tile and Di read, the bias-gradient epilogue,
\* __syncthreads(), tmpT and tmp written, __syncthreads()
MatmulDOIVJSmem ==
  << <<"use", "mm_gradV">>, <<"use", "mm_doivj">>, Barrier >> \o
  When(kPrologueGQ, << <<"use", "mm_gradQ">> >>) \o
  When(kPrologueGK, << <<"use", "mm_gradK">> >>) \o
  When(kApplyDropout, << <<"r", "zij">> >>) \o
  << <<"r", "attn_shared_storage">>, <<"r", "di">> >> \o
  When(p.grad_bias_ptr # 0, << <<"use", "gradB_epilogue">> >>) \o
  << Barrier >> \o
  When(~kIsTransposedA, << <<"w", "tmpT_shared_storage">> >>) \o
  << <<"w", "tmp_shared_storage">>, Barrier >>

\* MatmulDOIVJ, dPij *= Zij and dSij = (dPij - Di) * Pij, stored through
\* p.grad_bias_ptr, then multiplied by scale and written to
\* tmp_shared_storage: dSij is exactly 0 wherever Pij is
MatmulDOIVJ ==
  /\ pc = "doivj"
  /\ grad_bias' = IF p.grad_bias_ptr # 0
                    THEN Append(grad_bias, BiasGradEpilogue(dSij))
                    ELSE grad_bias
  /\ tmp' = [dSij EXCEPT !.scale = "p.scale"]
  /\ sync' = Track(sync, MatmulDOIVJSmem)
  /\ col' = 0
  /\ pc' = "grad_q"
  /\ UNCHANGED <<prefetch, delta, di, probe, T, p, key_start, key_end, query_start, query_end, blk,
                 output_frags, attn, zij, grad_query, grad_key, grad_value,
                 workspace, rng_state_init, calls, gmem_log, epi_log>>

\* GradQ: bool isFirst = key_start == 0
GradQIsFirst(ks) == ks = 0

\* isLast without the causal clause
GradQIsLast_NoCausal(qs, ks) ==
  LET nxt == incrIteration(p.num_queries, ks)
  IN nxt[2] >= p.num_keys

\* isLast without the end-of-keys clause
GradQIsLast_NoKeyEnd(qs, ks) ==
  LET nxt == incrIteration(p.num_queries, ks)
  IN p.causal /\ nxt[1] > qs

\* isLast computed the way isLastQuery is: from the successor of the tile
GradQIsLast_AsLastQuery(qs, ks) == incrIteration(qs, ks)[2] # ks

\* GradQ: incrIteration(p, p.num_queries, key_start, next_query, next_key);
\* isLast = (p.causal && next_query > query_start) || next_key >= p.num_keys
GradQIsLast(qs, ks) ==
  LET nxt == incrIteration(p.num_queries, ks)
  IN (p.causal /\ nxt[1] > qs) \/ nxt[2] >= p.num_keys

\* storage_id from the column block alone
GradQStorageId_ColOnly(qs, c) == c \div GradQ_kN

\* GradQ: storage_id
GradQStorageId(qs, c) ==
  (c \div GradQ_kN) +
    (qs \div kBlockSizeI) * ceil_div(p.head_dim, GradQ_kN)

GradQSlot(qs, c) == p.workspace_gq + GradQStorageId(qs, c) * kElementsStored

\* shared storage in one iteration of the GradQ loop: __syncthreads(), the
\* matmul reading tmp, with mm_gradQ, __syncthreads(), the prologue of the
\* next column, the epilogue
GradQSmem(c, epi) ==
  LET isLastColumn == c + GradQ_kN >= p.head_dim
  IN << Barrier, <<"r", "tmp_shared_storage">>, <<"use", "mm_gradQ">>,
        Barrier >> \o
     When(kPrologueGQ /\ ~isLastColumn, << <<"use", "mm_gradQ">> >>) \o
     When(epi, << <<"use", IF isLastColumn THEN "gradQ_epilogue_lastIter"
                          ELSE "gradQ_epilogue">> >>)

\* one iteration of the GradQ loop: for (col = 0; col < p.head_dim; col += kN)
GradQ ==
  /\ pc = "grad_q"
  /\ LET addr    == GradQSlot(query_start, col)
         isFirst == GradQIsFirst(key_start)
         isLast  == GradQIsLast(query_start, key_start)
         clear   == isFirst \/ ~kNeedsAccumGradQ
         accum0  == IF clear THEN Zero ELSE GmemLoad(addr)
         accum1  == mma(accum0, Term(tmp.query_start, tmp.key_start, col,
                                     tmp.factor))
         store   == kNeedsAccumGradQ /\ ~isLast
         first   == isFirst \/ kNeedsAccumGradQ
         cols    == Min(GradQ_kN, p.head_dim - col)
     IN /\ workspace' = IF store THEN GmemStore(workspace, addr, accum1)
                        ELSE workspace
        /\ grad_query' =
             IF ~store THEN accumulateInGmem(grad_query, query_start, col,
                                             blk.num_queries_in_block, cols,
                                             accum1, first)
             ELSE grad_query
        /\ gmem_log' = gmem_log \o
             (IF ~clear THEN <<GmemEntry("load", "gq", addr, col)>> ELSE <<>>) \o
             (IF store THEN <<GmemEntry("store", "gq", addr, col)>> ELSE <<>>)
        /\ epi_log' = epi_log \o
             (IF ~store THEN <<EpiEntry("gq", query_start, col,
                                        blk.num_queries_in_block, cols,
                                        first)>>
              ELSE <<>>)
        /\ sync' = Track(sync, GradQSmem(col, ~store))
        /\ IF col + GradQ_kN < p.head_dim
             THEN col' = col + GradQ_kN /\ pc' = "grad_q"
             ELSE col' = 0 /\ pc' = "grad_k"
  /\ UNCHANGED <<prefetch, grad_bias, delta, di, probe, T, p, key_start, key_end, query_start, query_end, blk,
                 output_frags, attn, zij, tmp, grad_key, grad_value,
                 rng_state_init, calls>>

\* the column taken for the index of the slot
GradKSlot_ByColumn(c) == workspace_gk(p) + c * kElementsStored

\* the slot of the dK accumulator of column block c
GradKSlot(c) == workspace_gk(p) + (c \div GradK_kN) * kElementsStored

\* shared storage in one iteration of the GradK loop: __syncthreads(), the
\* matmul reading tmp or tmpT, with mm_gradK, __syncthreads(), the prologue
\* of the next column or of MatmulQK of the next tile, the epilogue
GradKSmem(c, epi) ==
  LET isLastColumn == c + GradK_kN >= p.head_dim
      next == incrIteration(query_start, key_start)
  IN << Barrier,
        <<"r", IF kIsTransposedA THEN "tmp_shared_storage"
               ELSE "tmpT_shared_storage">>,
        <<"use", "mm_gradK">>, Barrier >> \o
     When(kPrologueGK /\ ~isLastColumn, << <<"use", "mm_gradK">> >>) \o
     When(kPrologueQK /\ isLastColumn,
          prologueQkNextIteration(next[2] # key_start, next[1], next[2])) \o
     When(epi, << <<"use", IF isLastColumn THEN "gradK_epilogue_final"
                          ELSE "gradK_epilogue">> >>)

\* one iteration of the GradK loop:
\* for (col = 0; col < (kOutputInRF ? 1 : p.head_dim); col += kN);
\* after the last one processBlockIJ returns into kernel()
GradK ==
  /\ pc = "grad_k"
  /\ LET addr  == GradKSlot(col)
         clear == blk.isFirstQuery \/ ~kNeedsAccumGradK
         frag0 == IF kOutputInRF THEN output_frags.gradK
                  ELSE IF clear THEN Zero ELSE GmemLoad(addr)
         frag1 == mma(frag0, Term(tmp.query_start, tmp.key_start, col,
                                  tmp.factor))
         store == ~kOutputInRF /\ kNeedsAccumGradK /\ ~blk.isLastQuery
         epi   == ~kOutputInRF /\ ~store
         first == blk.isFirstQuery \/ kNeedsAccumGradK
         cols  == Min(GradK_kN, p.head_dim - col)
         limit == IF kOutputInRF THEN 1 ELSE p.head_dim
     IN /\ output_frags' = [output_frags EXCEPT !.gradK = frag1]
        /\ workspace' = IF store THEN GmemStore(workspace, addr, frag1)
                        ELSE workspace
        /\ grad_key' =
             IF epi THEN accumulateInGmem(grad_key, key_start, col,
                                          blk.num_keys_in_block, cols, frag1,
                                          first)
             ELSE grad_key
        /\ gmem_log' = gmem_log \o
             (IF ~kOutputInRF /\ ~clear
                THEN <<GmemEntry("load", "gk", addr, col)>> ELSE <<>>) \o
             (IF store THEN <<GmemEntry("store", "gk", addr, col)>> ELSE <<>>)
        /\ epi_log' = epi_log \o
             (IF epi THEN <<EpiEntry("gk", key_start, col,
                                     blk.num_keys_in_block, cols, first)>>
              ELSE <<>>)
        /\ sync' = Track(sync, GradKSmem(col, epi))
        /\ prefetch' =
             IF kPrologueQK /\ col + GradK_kN >= p.head_dim
               THEN LET next == incrIteration(query_start, key_start)
                    IN Append(prefetch, Prefetch(next[2] # key_start,
                                                 next[1], next[2]))
               ELSE prefetch
        /\ IF col + GradK_kN < limit
             THEN /\ col' = col + GradK_kN
                  /\ pc' = "grad_k"
                  /\ UNCHANGED query_start
             ELSE /\ col' = 0
                  /\ pc' = IF blk.ret = "query_inc" THEN "query_loop"
                           ELSE IF blk.ret = "last_query_inc"
                                  THEN "last_query_loop"
                                  ELSE "key_flush"
                  /\ query_start' = IF blk.ret = "key_flush" THEN query_start
                                    ELSE query_start + kBlockSizeI
  /\ UNCHANGED <<grad_bias, delta, di, probe, T, p, key_start, key_end, query_end, blk, attn, zij, tmp,
                 grad_query, grad_value, rng_state_init, calls>>

-----------------------------------------------------------------------------
(* Initial states *)

\* sequence lengths with 1..maxTiles tiles of size B, the last tile holding
\* one row or full
DimSet(B, maxTiles) == UNION {{(t - 1) * B + 1, t * B} : t \in 1 .. maxTiles}

\* <<head_dim, head_dim_value>>, at most kMaxK (kMaxK_ is the "upperbound on
\* max(value.shape[-1], query.shape[-1])")
HeadDimPairs == {d \in {<<8, 8>>, <<72, 128>>, <<128, 72>>} :
                   d[1] <= kMaxK /\ d[2] <= kMaxK}

\* a Params the host hands to the kernel: pointers are byte addresses,
\* workspace pointers are set by advance_to_block
HostParams(nq, nk, hd, causal) ==
  [num_queries |-> nq, num_keys |-> nk, head_dim |-> hd[1],
   head_dim_value |-> hd[2], causal |-> causal,
   num_heads |-> 2, num_batches |-> 2, batch_id |-> 1, head_id |-> 1,
   query_ptr |-> 16, key_ptr |-> 16, value_ptr |-> 16, output_ptr |-> 16,
   grad_output_ptr |-> 16, lse_strideM |-> 8,
   q_strideH |-> 16, k_strideH |-> 16, v_strideH |-> 16,
   dropout_prob |-> 0, rng_seed |-> 0, rng_offset |-> 0,
   dropout_batch_head_rng_offset |-> 0,
   bias_ptr |-> 0, bias_strideM |-> nk, bias_strideH |-> nq * nk,
   bias_strideB |-> 2 * nq * nk,
   grad_bias_ptr |-> 0, gB_strideM |-> nk, gB_strideH |-> nq * nk,
   gB_strideB |-> 2 * nq * nk,
   delta_ptr |-> 0, workspace |-> 0, workspace_gv |-> 0, workspace_gq |-> 0]

\* everything but T and p
InitRest ==
  /\ pc = "host"
  /\ key_start = 0
  /\ key_end = 0
  /\ query_start = 0
  /\ query_end = 0
  /\ col = 0
  /\ blk = [skipBoundsChecks |-> FALSE, ret |-> "none",
            isFirstQuery |-> FALSE, isLastQuery |-> FALSE,
            num_queries_in_block |-> 0, num_keys_in_block |-> 0]
  /\ output_frags = [gradV |-> Garbage, gradK |-> Garbage]
  /\ attn = [query_start |-> -1, key_start |-> -1, masked |-> FALSE,
             factor |-> "ones", scale |-> "one"]
  /\ zij = [tile |-> <<>>, outside |-> {}]
  /\ tmp = [query_start |-> -1, key_start |-> -1, masked |-> FALSE,
            factor |-> "ones", scale |-> "one"]
  /\ grad_query = <<>>
  /\ grad_key = <<>>
  /\ grad_value = <<>>
  /\ workspace = <<>>
  /\ rng_state_init = [seed |-> 0, pos |-> 0]
  /\ calls = <<>>
  /\ gmem_log = <<>>
  /\ epi_log = <<>>
  /\ probe = {}
  /\ delta = <<>>
  /\ di = <<>>
  /\ sync = [dirty |-> {}, used |-> {}, ready |-> {}, handed |-> {},
             barriers |-> 0, hazards |-> {}, diverged |-> {}]
  /\ grad_bias = <<>>
  /\ prefetch = <<>>

\* the kernel variants: ArchTag::kMinComputeCapability, the bit width of
\* scalar_t__, kMaxK_
Variants ==
  [arch : {50, 70, 80}, scalar_bits : {16, 32}, kMaxK_ : {64, 128},
   kApplyDropout : {FALSE}]

Init ==
  /\ T \in Variants
  /\ p \in {HostParams(nq, nk, hd, c) :
              nq \in DimSet(kBlockSizeI, MaxQueryTiles),
              nk \in DimSet(kBlockSizeJ, MaxKeyTiles),
              hd \in HeadDimPairs, c \in BOOLEAN}
  /\ InitRest

Next ==
  \/ Launch
  \/ KernelEntry
  \/ KeyLoop
  \/ QueryLoop
  \/ KeyFlush
  \/ LastKey
  \/ LastQueryLoop
  \/ MatmulQK
  \/ GradV
  \/ MatmulDOIVJ
  \/ GradQ
  \/ GradK

Spec == Init /\ [][Next]_vars

\* Launches with pointers and strides of every alignment: each of the checked
\* fields is either 16 (8 for lse_strideM) or off by d elements (by 4 * d
\* for lse_strideM), d = 1 or 2
CheckedFields ==
  {"query_ptr", "key_ptr", "value_ptr", "output_ptr", "grad_output_ptr",
   "lse_strideM", "q_strideH", "k_strideH", "v_strideH"}

Shifted(q, S, d) ==
  [f \in DOMAIN q |->
     IF f \in S THEN (IF f = "lse_strideM" THEN q[f] + 4 * d ELSE q[f] + d)
     ELSE q[f]]

LaunchVariants ==
  [arch : {50, 70, 80}, scalar_bits : {16}, kMaxK_ : {64},
   kApplyDropout : {FALSE}]

InitLaunch ==
  /\ T \in LaunchVariants
  /\ p \in {Shifted(HostParams(kBlockSizeI + 1, kBlockSizeJ + 1, <<8, 8>>,
                               FALSE), S, d) :
              S \in SUBSET CheckedFields, d \in 1 .. 2}
  /\ InitRest

SpecLaunch == InitLaunch /\ [][Next]_vars

\* Runs with dropout: one variant for each tile shape (64x64, 128x64,
\* 128x128), full and partial tiles, dropout_prob = k/UniformLevels with
\* 0 < k < UniformLevels (dropout_scale = 1/(1 - dropout_prob) is finite)
DropoutVariants ==
  {t \in [arch : {50, 70, 80}, scalar_bits : {16}, kMaxK_ : {64, 128},
          kApplyDropout : {TRUE}] : (t.arch = 50) = (t.kMaxK_ = 64)}

DropoutParams(nq, nk, prob, seed) ==
  [HostParams(nq, nk, <<8, 8>>, FALSE) EXCEPT
     !.dropout_prob = prob, !.rng_seed = seed, !.rng_offset = 3]

InitDropout ==
  /\ T \in DropoutVariants
  /\ p \in {DropoutParams(nq, nk, ps[1], ps[2]) :
              nq \in {3, kBlockSizeI + 31},
              nk \in {5, kBlockSizeJ, kBlockSizeJ + 62},
              ps \in {<<1, 1>>, <<UniformLevels - 1, 2>>}}
  /\ InitRest

SpecDropout == InitDropout /\ [][Next]_vars

\* Runs of the dropout variants with dropout_prob = 0
InitDropoutZero ==
  /\ T \in DropoutVariants
  /\ p \in {DropoutParams(nq, nk, 0, seed) :
              nq \in {3, kBlockSizeI + 31},
              nk \in {5, kBlockSizeJ + 62},
              seed \in {1, 2}}
  /\ InitRest

SpecDropoutZero == InitDropoutZero /\ [][Next]_vars

\* Every unit of the launch grids of 1 .. MaxBatchHeads batches and heads, in
\* a spilling variant and in a register-resident one, on two tiles a side
GridVariants ==
  {t \in [arch : {50, 80}, scalar_bits : {16}, kMaxK_ : {64, 128},
          kApplyDropout : {FALSE}] : (t.arch = 50) = (t.kMaxK_ = 128)}

InitGrid ==
  /\ T \in GridVariants
  /\ p \in UNION {{OfBlock(WithCounts(HostParams(kBlockSizeI + 1,
                                                 kBlockSizeJ + 1, <<8, 8>>,
                                                 FALSE), nb, nh), idx) :
                     idx \in BlockIdx(getBlocksGrid(
                               WithCounts(HostParams(1, 1, <<8, 8>>, FALSE),
                                          nb, nh)))} :
                   nb \in 1 .. MaxBatchHeads, nh \in 1 .. MaxBatchHeads}
  /\ InitRest

SpecGrid == InitGrid /\ [][Next]_vars

\* Runs over every sequence length from 0 up: empty, one row, full and
\* partial tiles. The unit executes kernel() sequentially and is never
\* suspended for good, so a step that is possible is eventually taken
SchedVariants ==
  [arch : {50, 70, 80}, scalar_bits : {16}, kMaxK_ : {64, 128},
   kApplyDropout : {FALSE}]

InitSched ==
  /\ T \in SchedVariants
  /\ p \in {HostParams(nq, nk, <<8, 8>>, c) :
              nq \in {0} \cup DimSet(kBlockSizeI, MaxQueryTiles),
              nk \in {0} \cup DimSet(kBlockSizeJ, MaxKeyTiles),
              c \in BOOLEAN}
  /\ InitRest

SpecSched == InitSched /\ [][Next]_vars /\ WF_vars(Next)

-----------------------------------------------------------------------------
(* The stream position of a mask element, as a function of the problem     *)
(* sizes and of the element's coordinates                                  *)

\* the thread that generates column c of row r of a Zij tile
ZijWriter(r, c, nqb, nkb) ==
  CHOOSE t \in Threads :
    /\ ZijActive(t, nqb, nkb)
    /\ thread_i(t, nqb, nkb) = r
    /\ thread_start_j(t, nqb, nkb) <= c
    /\ c <= ZijLastCol(t, nqb, nkb)

\* the position of the uniform number drawn for the mask element (qrow, kcol)
\* by the unit of (batch b, head h): advance_to_block, curand_init in
\* kernel(), then skipahead and the quad loop of the thread that generates
\* the element in the tile that holds it
ElementPosition(b, h, qrow, kcol) ==
  LET u   == advance_to_block([p EXCEPT !.batch_id = b, !.head_id = h])
      st0 == curand_init(p.rng_seed,
                         p.rng_offset + u.dropout_batch_head_rng_offset)
      qs  == (qrow \div kBlockSizeI) * kBlockSizeI
      ks  == (kcol \div kBlockSizeJ) * kBlockSizeJ
      nqb == NumQueriesInBlock(FALSE, qs)
      nkb == NumKeysInBlock(FALSE, ks)
      t   == ZijWriter(qrow - qs, kcol - ks, nqb, nkb)
  IN skipahead(ZijSkip(t, nqb, nkb, qs, ks), st0).pos +
       ((kcol - ks) - thread_start_j(t, nqb, nkb))

\* the mask elements the positions are computed for: the first and the last
\* batch, two heads, the first and the last row, a column inside a thread's
\* quad and the last column
ProbeElements ==
  {e \in [batch_id : {0, p.num_batches - 1}, head_id : {0, 3},
          query : {0, p.num_queries - 1}, key : {5, p.num_keys - 1}] :
     e.head_id < p.num_heads}

\* the positions of two mask elements are computed
ZijPosition ==
  /\ pc = "host"
  /\ \E e1 \in ProbeElements, e2 \in ProbeElements :
       probe' = {[elt |-> e,
                  pos |-> ElementPosition(e.batch_id, e.head_id, e.query,
                                          e.key)] : e \in {e1, e2}}
  /\ pc' = "probed"
  /\ UNCHANGED <<prefetch, grad_bias, delta, di, sync, T, p, key_start, key_end, query_start, query_end, col, blk,
                 output_frags, attn, zij, tmp, grad_query, grad_key,
                 grad_value, workspace, rng_state_init, calls, gmem_log,
                 epi_log>>

\* Launches with and without a bias gradient to produce
BiasVariants ==
  [arch : {50, 80}, scalar_bits : {16}, kMaxK_ : {64, 128},
   kApplyDropout : {FALSE}]

InitBias ==
  /\ T \in BiasVariants
  /\ p \in {[HostParams(nq, nk, <<8, 8>>, c) EXCEPT !.grad_bias_ptr = gb] :
              nq \in DimSet(kBlockSizeI, MaxQueryTiles),
              nk \in DimSet(kBlockSizeJ, MaxQueryTiles),
              c \in BOOLEAN, gb \in {0, 4096}}
  /\ InitRest

SpecBias == InitBias /\ [][Next]_vars

\* Launches over the layouts of shared storage: with the prologues
\* (Sm80, kMaxK 64), without them and with the outputs in registers
\* (Sm50, kMaxK 64) or spilled (kMaxK 128), with and without dropout, an
\* attention bias and a bias gradient, on one or several column blocks
SyncVariants ==
  [arch : {50, 80}, scalar_bits : {16}, kMaxK_ : {64, 128},
   kApplyDropout : BOOLEAN]

InitSync ==
  /\ T \in SyncVariants
  /\ p \in {[HostParams(nq, nk, hd, FALSE) EXCEPT
                !.bias_ptr = b, !.grad_bias_ptr = gb,
                !.dropout_prob = IF kApplyDropout THEN 1 ELSE 0,
                !.rng_seed = 1, !.rng_offset = 3] :
              nq \in {3, kBlockSizeI + 31},
              nk \in {5, kBlockSizeJ + 62},
              hd \in HeadDimPairs,
              b \in {0, 2048}, gb \in {0, 4096}}
  /\ InitRest

SpecSync == InitSync /\ [][Next]_vars

\* Launches for the control flow around barriers and shuffles: every
\* layout of shared storage, with and without dropout, causal or not, with
\* and without a bias and its gradient, on no query at all, on partial and
\* on full tiles (with dropout: a partial query tile on two key tiles, with
\* a bias and its gradient).
\* The threads of a unit run kernel() to its end unless a barrier holds
\* them, so a step that is possible is eventually taken
InitUniform ==
  /\ T \in SyncVariants
  /\ p \in {[HostParams(nq, nk, hd, c) EXCEPT
                !.bias_ptr = b[1], !.grad_bias_ptr = b[2],
                !.dropout_prob = IF kApplyDropout THEN 1 ELSE 0,
                !.rng_seed = 1, !.rng_offset = 3] :
              nq \in IF kApplyDropout THEN {3}
                     ELSE {0, 3, kBlockSizeI + 31},
              nk \in IF kApplyDropout THEN {kBlockSizeJ + 62}
                     ELSE {5, kBlockSizeJ, kBlockSizeJ + 62},
              hd \in IF kApplyDropout THEN {<<8, 8>>}
                     ELSE {<<8, 8>>, <<72, 128>>} \cap HeadDimPairs,
              c \in IF kApplyDropout THEN {FALSE} ELSE BOOLEAN,
              b \in IF kApplyDropout THEN {<<2048, 4096>>}
                    ELSE {<<0, 0>>, <<2048, 4096>>}}
  /\ InitRest

SpecUniform == InitUniform /\ [][Next]_vars /\ WF_vars(Next)

\* Launches that spill accumulators to the workspace: dQ in every variant,
\* dK and dV where the outputs are not kept in registers (kMaxK 128 on
\* Sm50), causal or not, on full and partial tiles and one or several
\* column blocks
ScratchVariants ==
  [arch : {50, 80}, scalar_bits : {16}, kMaxK_ : {64, 128},
   kApplyDropout : {FALSE}]

InitScratch ==
  /\ T \in ScratchVariants
  /\ p \in {HostParams(nq, nk, hd, c) :
              nq \in DimSet(kBlockSizeI, MaxQueryTiles),
              nk \in DimSet(kBlockSizeJ, MaxKeyTiles),
              hd \in HeadDimPairs, c \in BOOLEAN}
  /\ InitRest

SpecScratch == InitScratch /\ [][Next]_vars

\* <<num_heads, num_queries, num_keys>> of the problems: two tiles a side,
\* and long sequences
RngSizes ==
  {<<2, kBlockSizeI + 31, kBlockSizeJ + 62>>, <<16, 16384, 16384>>}

InitRng ==
  /\ T \in DropoutVariants
  /\ p \in {[DropoutParams(d[2], d[3], 1, 1) EXCEPT !.num_heads = d[1]] :
              d \in RngSizes}
  /\ InitRest

NextRng == ZijPosition

SpecRng == InitRng /\ [][NextRng]_vars

-----------------------------------------------------------------------------
(* Vocabulary of the properties *)

Done == pc = "done"

KeyTileStarts ==
  {j * kBlockSizeJ : j \in 0 .. (ceil_div(p.num_keys, kBlockSizeJ) - 1)}

QueryTileStarts ==
  {i * kBlockSizeI : i \in 0 .. (ceil_div(p.num_queries, kBlockSizeI) - 1)}

\* the starts of the column blocks of width kN of a head dimension
ColBlocks(dim, kN) == {c * kN : c \in 0 .. (ceil_div(dim, kN) - 1)}

\* the processBlockIJ calls of key tile ks / of query tile qs, in call order
CallsOfKey(ks) == SelectSeq(calls, LAMBDA c : c.key_start = ks)
CallsOfQuery(qs) == SelectSeq(calls, LAMBDA c : c.query_start = qs)

\* the sum of the contributions of the given calls to column block c
SumOf(cs, c) ==
  [valid |-> TRUE,
   terms |-> [i \in 1 .. Len(cs) |->
                <<cs[i].query_start, cs[i].key_start, c>>]]

\* the accumulateInGmem calls that reached destination tile <<row, c>> of dst
EpiOf(dst, row, c) ==
  SelectSeq(epi_log, LAMBDA e : e.dst = dst /\ e.row = row /\ e.col = c)

\* C1, for one gradient: the destination tile holds the sum of the
\* contributions of the query tiles processed for the key tile, each once
KeyTileSummed(mem, dst, ks, c) ==
  /\ ReadCell(mem, <<ks, c>>) = SumOf(CallsOfKey(ks), c)
  /\ Len(EpiOf(dst, ks, c)) >= 1
  /\ EpiOf(dst, ks, c)[1].first

\* C1: when kernel() finishes, the grad_key and grad_value rows of every key
\* tile hold the sum of the contributions of exactly the query tiles
\* processed for that key tile, each counted once, in every kernel variant
\* (first contributing tile overwrites, later ones add, the last one produces
\* the final write)
C1_KeyValueGradSums ==
  Done =>
    \A ks \in KeyTileStarts :
      /\ \A c \in ColBlocks(p.head_dim, GradK_kN) :
           KeyTileSummed(grad_key, "gk", ks, c)
      /\ \A c \in ColBlocks(p.head_dim_value, GradV_kN) :
           KeyTileSummed(grad_value, "gv", ks, c)

-----------------------------------------------------------------------------
\* the GmemTile operations of kind op on the dQ scratch area made while tile
\* (qs, ks) handled column block c
GqOps(op, qs, ks, c) ==
  SelectSeq(gmem_log, LAMBDA g : g.area = "gq" /\ g.op = op /\ g.col = c /\
                                 g.query_start = qs /\ g.key_start = ks)

\* the epilogue writes to grad_query made while tile (qs, ks) handled column
\* block c
GqEpi(qs, ks, c) ==
  SelectSeq(epi_log, LAMBDA e : e.dst = "gq" /\ e.col = c /\
                                e.query_start = qs /\ e.key_start = ks)

\* the i-th key tile that processed query tile qs loads, stores and flushes
\* the dQ accumulator of column block c as C2 states
GradQPolicy(qs, c) ==
  LET cs == CallsOfQuery(qs)
  IN \A i \in 1 .. Len(cs) :
       /\ Len(GqOps("load", qs, cs[i].key_start, c)) = (IF i = 1 THEN 0 ELSE 1)
       /\ Len(GqOps("store", qs, cs[i].key_start, c)) =
            (IF i = Len(cs) THEN 0 ELSE 1)
       /\ Len(GqEpi(qs, cs[i].key_start, c)) = (IF i = Len(cs) THEN 1 ELSE 0)
       /\ i > 1 => cs[i - 1].key_start < cs[i].key_start
       /\ \A g \in {GqOps("load", qs, cs[i].key_start, c)[k] :
                      k \in 1 .. Len(GqOps("load", qs, cs[i].key_start, c))} \cup
                   {GqOps("store", qs, cs[i].key_start, c)[k] :
                      k \in 1 .. Len(GqOps("store", qs, cs[i].key_start, c))} :
            g.addr = GradQSlot(qs, c)

\* C2: when kernel() finishes, grad_query holds for every query tile and
\* head-dim column block the sum of the contributions of exactly the key
\* tiles that processed the query tile, each once and in increasing key-tile
\* order: loaded from the dQ scratch slot on every key tile but the first,
\* stored back on every key tile but the last, flushed through the epilogue
\* on the last
C2_QueryGradSums ==
  Done =>
    \A qs \in QueryTileStarts : \A c \in ColBlocks(p.head_dim, GradQ_kN) :
      /\ ReadCell(grad_query, <<qs, c>>) = SumOf(CallsOfQuery(qs), c)
      /\ Len(CallsOfQuery(qs)) >= 1
      /\ GradQPolicy(qs, c)

\* C2 witness: a finished causal run in which some query tile's dQ was
\* accumulated over several key tiles through the scratch slot
C2_Witness ==
  /\ Done
  /\ p.causal
  /\ \E qs \in QueryTileStarts :
       /\ Len(CallsOfQuery(qs)) >= 2
       /\ Len(ReadCell(grad_query, <<qs, 0>>).terms) >= 2
       /\ \E i \in 1 .. Len(gmem_log) :
            gmem_log[i].area = "gq" /\ gmem_log[i].op = "load" /\
            gmem_log[i].query_start = qs

-----------------------------------------------------------------------------
\* the tile in shared memory is the one being processed
CurrentTile(a) == a.query_start = query_start /\ a.key_start = key_start

\* every entry of tile a whose global key index exceeds its global query
\* index is exactly 0
MaskedAbove(a) ==
  \A accum_n \in 0 .. (kBlockSizeI - 1) :
    LET above == a.query_start + accum_n - a.key_start + 1
    IN \A accum_m \in (IF above > 0 THEN above ELSE 0) .. (kBlockSizeJ - 1) :
         a.key_start + accum_m > a.query_start + accum_n /\
         NegInf(a, accum_m, accum_n)

\* C3: with causal = true every entry with global key index > global query
\* index of every processed tile, full or partial, is set to -infinity before
\* the exponential, so the probability tile read by the dV matmul and the
\* score-gradient tile read by the dQ and dK matmuls are exactly 0 there
\* (the entries are examined when the first column block reads the tile; the
\* later column blocks and the dK matmul read the same, unchanged tile)
C3_CausalZero ==
  p.causal =>
    /\ pc = "grad_v" => CurrentTile(attn) /\ (col = 0 => MaskedAbove(attn))
    /\ pc \in {"grad_q", "grad_k"} =>
         CurrentTile(tmp) /\ (pc = "grad_q" /\ col = 0 => MaskedAbove(tmp))

\* C3 witness: the dK matmul of a causal tile that is not the first key tile
\* and that the diagonal crosses: some in-bounds entries are masked, some not
C3_Witness ==
  /\ pc = "grad_k"
  /\ p.causal
  /\ key_start > 0
  /\ \E m \in 0 .. (blk.num_keys_in_block - 1) :
       \E n \in 0 .. (blk.num_queries_in_block - 1) :
         key_start + m > query_start + n /\ NegInf(tmp, m, n)
  /\ \E m \in 0 .. (blk.num_keys_in_block - 1) :
       \E n \in 0 .. (blk.num_queries_in_block - 1) :
         ~NegInf(tmp, m, n)

-----------------------------------------------------------------------------
\* destination tile <<row, c>> was written through the epilogue with a
\* defined value covering rows x cols
FinalWritten(mem, row, c, rows, cols) ==
  /\ <<row, c>> \in DOMAIN mem
  /\ mem[<<row, c>>].val.valid
  /\ mem[<<row, c>>].rows >= rows
  /\ mem[<<row, c>>].cols >= cols

\* C4: when kernel() returns every key row below num_keys of grad_key and
\* grad_value and every query row below num_queries of grad_query has
\* received its final write, causal or not, register-resident or spilling,
\* also for key tiles the causal constraint leaves without query tile
C4_AllGradsWritten ==
  Done =>
    /\ \A ks \in KeyTileStarts :
         /\ \A c \in ColBlocks(p.head_dim, GradK_kN) :
              FinalWritten(grad_key, ks, c,
                           Min(kBlockSizeJ, p.num_keys - ks),
                           Min(GradK_kN, p.head_dim - c))
         /\ \A c \in ColBlocks(p.head_dim_value, GradV_kN) :
              FinalWritten(grad_value, ks, c,
                           Min(kBlockSizeJ, p.num_keys - ks),
                           Min(GradV_kN, p.head_dim_value - c))
    /\ \A qs \in QueryTileStarts : \A c \in ColBlocks(p.head_dim, GradQ_kN) :
         FinalWritten(grad_query, qs, c,
                      Min(kBlockSizeI, p.num_queries - qs),
                      Min(GradQ_kN, p.head_dim - c))

\* workspace_size is num_batches x num_heads x workspace_strideBH x
\* sizeof(float), and workspace_strideBH does not depend on the counts
SizeLinear ==
  \A nb \in 1 .. MaxBatchHeads : \A nh \in 1 .. MaxBatchHeads :
    /\ workspace_strideBH(WithCounts(p, nb, nh)) = workspace_strideBH(p)
    /\ workspace_size(WithCounts(p, nb, nh)) =
         nb * nh * workspace_strideBH(p) * SizeofFloat

-----------------------------------------------------------------------------
\* n rounded up to a multiple of the tile size B
TileRounded(n, B) == CHOOSE m \in n .. (n + B - 1) : m % B = 0

\* advance_to_block has run
Advanced == pc \notin {"host", "entry", "rejected"}

\* C6: inside one (batch, head) slab the spill areas lie in the order dK, dV,
\* dQ at element offsets 0, workspace_elements_gk() and workspace_elements_gk()
\* + workspace_elements_gv(); they do not overlap and fit in
\* workspace_strideBH() elements, which is the sum of the three counts rounded
\* up to a multiple of 4; each count is the tile-rounded product of its
\* sequence length and head dimension, or 0 when the gradient does not spill
C6_SlabLayout ==
  Advanced =>
    LET gk == workspace_elements_gk(p)
        gv == workspace_elements_gv(p)
        gq == workspace_elements_gq(p)
        oK == workspace_gk(p) - p.workspace
        oV == p.workspace_gv - p.workspace
        oQ == p.workspace_gq - p.workspace
    IN /\ oK = 0 /\ oV = gk /\ oQ = gk + gv
       /\ oK + gk <= oV /\ oV + gv <= oQ /\ oQ + gq <= workspace_strideBH(p)
       /\ workspace_strideBH(p) % 4 = 0
       /\ workspace_strideBH(p) < gk + gv + gq + 4
       /\ gk = IF kOutputInRF THEN 0
               ELSE TileRounded(p.num_keys, kBlockSizeJ) *
                      TileRounded(p.head_dim, kBlockSizeI)
       /\ gv = IF kOutputInRF THEN 0
               ELSE TileRounded(p.num_keys, kBlockSizeJ) *
                      TileRounded(p.head_dim_value, kBlockSizeI)
       /\ gq = IF p.num_keys <= kBlockSizeJ THEN 0
               ELSE TileRounded(p.num_queries, kBlockSizeI) *
                      TileRounded(p.head_dim, kBlockSizeJ)

\* C6 witness: a spilling variant on several key tiles: three non-empty
\* areas, and the kernel has stored into the dQ one
C6_Witness ==
  /\ Advanced
  /\ workspace_elements_gk(p) > 0
  /\ workspace_elements_gv(p) > 0
  /\ workspace_elements_gq(p) > 0
  /\ \E i \in 1 .. Len(gmem_log) :
       gmem_log[i].area = "gq" /\ gmem_log[i].addr >= p.workspace_gq

-----------------------------------------------------------------------------
\* C7: when num_keys <= kBlockSizeJ the dQ spill is skipped entirely:
\* workspace_elements_gq() is 0, no load from and no store to the dQ scratch
\* area is ever made, and each query tile's dQ is produced by a single
\* overwrite write through the epilogue
C7_NoGradQSpill ==
  p.num_keys <= kBlockSizeJ =>
    /\ workspace_elements_gq(p) = 0
    /\ \A i \in 1 .. Len(gmem_log) : gmem_log[i].area # "gq"
    /\ \A i \in 1 .. Len(epi_log) :
         epi_log[i].dst = "gq" => epi_log[i].first
    /\ \A qs \in QueryTileStarts : \A c \in ColBlocks(p.head_dim, GradQ_kN) :
         /\ Len(EpiOf("gq", qs, c)) <= 1
         /\ Done => Len(EpiOf("gq", qs, c)) = 1

\* C7 witness: a finished run on a single key tile with several query tiles
\* and several head-dim column blocks, each dQ tile written once
C7_Witness ==
  /\ Done
  /\ p.num_keys <= kBlockSizeJ
  /\ Cardinality(QueryTileStarts) >= 2
  /\ Cardinality(ColBlocks(p.head_dim, GradQ_kN)) >= 2
  /\ \A qs \in QueryTileStarts : \A c \in ColBlocks(p.head_dim, GradQ_kN) :
       Len(EpiOf("gq", qs, c)) = 1 /\ EpiOf("gq", qs, c)[1].first

-----------------------------------------------------------------------------
\* the conditions on a launch, field by field
PreconditionsHold ==
  /\ \A f \in {"query_ptr", "key_ptr", "value_ptr", "output_ptr",
               "grad_output_ptr"} : p[f] % kMinimumAlignment = 0
  /\ p.lse_strideM % 8 = 0
  /\ \A f \in {"q_strideH", "k_strideH", "v_strideH"} :
       p[f] % kMinimumAlignment = 0

\* nothing of the kernel has run
KernelUntouched ==
  /\ grad_query = <<>> /\ grad_key = <<>> /\ grad_value = <<>>
  /\ workspace = <<>> /\ calls = <<>> /\ epi_log = <<>> /\ gmem_log = <<>>

\* C8: check_supported accepts a Params exactly when the five pointers are
\* aligned to kMinimumAlignment, lse_strideM is a multiple of 8 and the three
\* head strides are multiples of kMinimumAlignment; a launch that fails one of
\* them is rejected before the kernel runs and writes no gradient, and the
\* kernel runs only for Params that meet all of them
C8_CheckSupported ==
  /\ pc = "host" => (check_supported(p) <=> PreconditionsHold)
  /\ pc = "rejected" => ~PreconditionsHold /\ KernelUntouched
  /\ pc \notin {"host", "rejected"} => PreconditionsHold

\* C8 witness: a launch rejected for its lse_strideM alone
C8_Witness ==
  /\ pc = "rejected"
  /\ p.lse_strideM % 8 # 0
  /\ \A f \in CheckedFields \ {"lse_strideM"} : p[f] % kMinimumAlignment = 0
  /\ kMinimumAlignment > 1
  /\ KernelUntouched

-----------------------------------------------------------------------------
\* Zij is about to be read: by the dV matmul and by the dP multiplication
ZijConsumed == kApplyDropout /\ pc \in {"grad_v", "doivj"}

\* C9: with dropout, when the mask tile Zij is consumed every in-bounds
\* element (row < num_queries_in_block, column < num_keys_in_block) has been
\* assigned for the current tile a value that is 0 or 1/(1 - dropout_prob),
\* for full and partial tiles, and nothing is written outside the
\* kBlockSizeJ x kBlockSizeI tile
C9_ZijCovered ==
  ZijConsumed =>
    /\ \A r \in 0 .. (blk.num_queries_in_block - 1) :
         \A c \in 0 .. (blk.num_keys_in_block - 1) :
           /\ ZijAt(zij, c, r).tile = <<query_start, key_start>>
           /\ ZijAt(zij, c, r).val \in
                {<<0, UniformLevels - p.dropout_prob>>,
                 <<UniformLevels, UniformLevels - p.dropout_prob>>}
    /\ zij.outside = {}

\* some in-bounds element of the current tile has numerator v
ZijHolds(v) ==
  \E r \in 0 .. (blk.num_queries_in_block - 1) :
    \E c \in 0 .. (blk.num_keys_in_block - 1) :
      ZijAt(zij, c, r).tile = <<query_start, key_start>> /\
      ZijAt(zij, c, r).val[1] = v

\* C9 witness: a partial tile (fewer queries and fewer keys than the tile
\* holds, the keys not a whole number of quads) of the second key tile is
\* consumed, elements of both values in it
C9_Witness ==
  /\ ZijConsumed
  /\ key_start > 0
  /\ blk.num_queries_in_block < kBlockSizeI
  /\ blk.num_keys_in_block < kBlockSizeJ
  /\ blk.num_keys_in_block % 4 # 0
  /\ ZijHolds(0)
  /\ ZijHolds(UniformLevels)

-----------------------------------------------------------------------------
\* the position in the random stream of element (query row, key column) of
\* this batch and head
StreamPos(qrow, kcol) ==
  p.rng_offset +
    (p.batch_id * p.num_heads + p.head_id) * (p.num_queries * p.num_keys) +
    qrow * p.num_keys + kcol

\* the mask value of element (query row, key column)
MaskValue(qrow, kcol) ==
  <<(IF Uniform(p.rng_seed, StreamPos(qrow, kcol)) > p.dropout_prob
       THEN UniformLevels ELSE 0),
    UniformLevels - p.dropout_prob>>

\* C10: dropout is deterministic: the mask value of element (batch, head,
\* query row, key column) is a function of those coordinates, the seed and
\* the offset only: whichever thread generates it, in whichever tile (full or
\* partial, of whatever size), it draws the value at stream position
\* rng_offset + ((batch * num_heads + head) * num_queries + query row) *
\* num_keys + key column, and that is what the tile holds when it is consumed
C10_DropoutDeterministic ==
  ZijConsumed =>
    LET nqb == blk.num_queries_in_block
        nkb == blk.num_keys_in_block
        th  == Evaluated([t \in Threads |-> ZijThread(t, nqb, nkb)])
    IN \A t \in Threads :
         th[t].active =>
           \A c \in th[t].first .. th[t].last :
             LET r    == th[t].i
                 cell == ZijCell(t, c, nqb, nkb, query_start, key_start)
             IN /\ cell.pos = StreamPos(query_start + r, key_start + c)
                /\ cell.val = MaskValue(query_start + r, key_start + c)
                /\ (c < kBlockSizeJ /\ r < kBlockSizeI) =>
                     ZijAt(zij, c, r).val =
                       MaskValue(query_start + r, key_start + c)

\* C10 witness: a tile away from the origin in both directions is consumed,
\* generated by several threads per row
C10_Witness ==
  /\ ZijConsumed
  /\ query_start > 0
  /\ key_start > 0
  /\ threads_per_row(blk.num_queries_in_block, blk.num_keys_in_block) > 1
  /\ ZijAt(zij, 0, 0).tile = <<query_start, key_start>>

-----------------------------------------------------------------------------
(* C11 *)

\* x = a * b * c for non-negative a, b, c, without forming the product
IsProduct3(x, a, b, c) ==
  IF a = 0 \/ b = 0 \/ c = 0 THEN x = 0
  ELSE /\ x % a = 0
       /\ (x \div a) % b = 0
       /\ (x \div a) \div b = c

\* the position the formula gives to the element: rng_offset +
\* b (num_heads num_queries num_keys) + h (num_queries num_keys) +
\* q num_keys + k
AtFormulaPosition(e) ==
  IsProduct3(e.pos - p.rng_offset -
               (e.elt.query * p.num_keys + e.elt.key) -
               e.elt.head_id * (p.num_queries * p.num_keys),
             e.elt.batch_id, p.num_heads, p.num_queries * p.num_keys)

\* C11: the uniform number of mask element (b, h, q, k) is drawn at stream
\* position rng_offset + b (num_heads num_queries num_keys) +
\* h (num_queries num_keys) + q num_keys + k, and two different elements
\* are never drawn at the same position.
C11_StreamPositions ==
  /\ \A e \in probe : AtFormulaPosition(e)
  /\ \A e1, e2 \in probe : e1.elt # e2.elt => e1.pos # e2.pos

-----------------------------------------------------------------------------
(* C12 *)

\* grad_key, grad_value and grad_query hold what the variant without dropout
\* leaves there: the plain sums of the contributions of the processed tiles
NoDropoutGrads ==
  /\ \A ks \in KeyTileStarts :
       /\ \A c \in ColBlocks(p.head_dim, GradK_kN) :
            ReadCell(grad_key, <<ks, c>>) = SumOf(CallsOfKey(ks), c)
       /\ \A c \in ColBlocks(p.head_dim_value, GradV_kN) :
            ReadCell(grad_value, <<ks, c>>) = SumOf(CallsOfKey(ks), c)
  /\ \A qs \in QueryTileStarts : \A c \in ColBlocks(p.head_dim, GradQ_kN) :
       ReadCell(grad_query, <<qs, c>>) = SumOf(CallsOfQuery(qs), c)

-----------------------------------------------------------------------------
(* C13 *)

\* the units of the launch other than this one
OtherBlocks ==
  {idx \in BlockIdx(getBlocksGrid(p)) :
     <<idx.z, idx.y>> # <<p.batch_id, p.head_id>>}

\* the half-open ranges [a, a + n) and [b, b + m) share no element
Disjoint(a, n, b, m) == a + n <= b \/ b + m <= a

\* C13: the launch grid has exactly num_batches x num_heads units, one for
\* each (batch, head); after advance_to_block the scratch slab of unit (b, h)
\* starts at element (b num_heads + h) workspace_strideBH() and its delta
\* range at element (b num_heads + h) num_queries; the slabs, and the delta
\* ranges, of different units are disjoint, every slab lies inside a buffer
\* of workspace_size() bytes, and every scratch tile the unit loads or stores
\* lies inside its own slab.
C13_UnitsDisjoint ==
  Advanced =>
    LET g      == getBlocksGrid(p)
        unit   == p.batch_id * p.num_heads + p.head_id
        stride == workspace_strideBH(p)
    IN /\ Cardinality(BlockIdx(g)) = p.num_batches * p.num_heads
       /\ \A b \in 0 .. (p.num_batches - 1), h \in 0 .. (p.num_heads - 1) :
            Cardinality({idx \in BlockIdx(g) : idx.z = b /\ idx.y = h}) = 1
       /\ p.workspace = unit * stride
       /\ p.delta_ptr = unit * p.num_queries
       /\ (p.workspace + stride) * SizeofFloat <= workspace_size(p)
       /\ \A idx \in OtherBlocks :
            LET o == advance_to_block(OfBlock(p, idx))
            IN /\ Disjoint(p.workspace, stride, o.workspace, stride)
               /\ Disjoint(p.delta_ptr, p.num_queries,
                           o.delta_ptr, p.num_queries)
               /\ (o.workspace + stride) * SizeofFloat <= workspace_size(p)
       /\ \A i \in 1 .. Len(gmem_log) :
            /\ p.workspace <= gmem_log[i].addr
            /\ gmem_log[i].addr + kElementsStored <= p.workspace + stride

\* C13 witness: a unit with batch and head index above 0 of a grid with
\* other units has finished after using its scratch slab
C13_Witness ==
  /\ Done
  /\ p.batch_id >= 1
  /\ p.head_id >= 1
  /\ Cardinality(OtherBlocks) >= 3
  /\ workspace_strideBH(p) > 0
  /\ Len(gmem_log) >= 1

-----------------------------------------------------------------------------
(* C14 *)

\* key_start changes only by growing by kBlockSizeJ
KeyStartStep == key_start' = key_start \/ key_start' = key_start + kBlockSizeJ

\* from one processBlockIJ call to the next either the key tile stays and
\* query_start grows by kBlockSizeI, or the key tile is a later one
CallsOrdered ==
  \A i \in 1 .. (Len(calls) - 1) :
    IF calls[i + 1].key_start = calls[i].key_start
      THEN calls[i + 1].query_start = calls[i].query_start + kBlockSizeI
      ELSE calls[i + 1].key_start > calls[i].key_start

\* the key tiles that processed query tile qs before the running call
EarlierKeyTiles(qs) ==
  SelectSeq(calls, LAMBDA c : c.query_start = qs /\ c.key_start < key_start)

\* when the dQ matmul of tile (query_start, key_start) is about to compute
\* column block col, the accumulator it continues from (the scratch slot it
\* loads, nothing on key tile 0) is the sum of the contributions of all the
\* earlier key tiles to that query tile
EarlierAdded ==
  pc = "grad_q" =>
    /\ GradQIsFirst(key_start) => Len(EarlierKeyTiles(query_start)) = 0
    /\ ~GradQIsFirst(key_start) =>
         GmemLoad(GradQSlot(query_start, col)) =
           SumOf(EarlierKeyTiles(query_start), col)

\* C14: key_start never decreases and changes only in steps of kBlockSizeJ;
\* within a key tile query_start grows by kBlockSizeI from one processBlockIJ
\* call to the next; and every contribution of an earlier key tile to a query
\* tile's dQ has been added before a later key tile computes its contribution
\* to the same query tile.
C14_TileOrder ==
  [][KeyStartStep]_vars /\ [](CallsOrdered /\ EarlierAdded)

\* C14 witness: the third key tile is about to add to the dQ of the second
\* query tile, which the two earlier key tiles have contributed to
C14_Witness ==
  /\ pc = "grad_q"
  /\ query_start = kBlockSizeI
  /\ key_start = 2 * kBlockSizeJ
  /\ Len(EarlierKeyTiles(query_start)) = 2

-----------------------------------------------------------------------------
(* C15 *)

\* the largest multiple of B that does not exceed n
TileFloor(n, B) == CHOOSE m \in (n - B + 1) .. n : m % B = 0

\* query tile qs was not processed for key tile ks
Skipped(qs, ks) ==
  \A i \in 1 .. Len(calls) :
    ~(calls[i].query_start = qs /\ calls[i].key_start = ks)

\* every pair of tile (qs, ks) has its key index above its query index
EntirelyMasked(qs, ks) ==
  \A q \in qs .. (Min(qs + kBlockSizeI, p.num_queries) - 1) :
    \A k \in ks .. (Min(ks + kBlockSizeJ, p.num_keys) - 1) : k > q

\* C15: with causal = true the first query tile processed for a key tile
\* starts at the largest multiple of kBlockSizeI that does not exceed
\* key_start, and every query tile skipped for the key tile is entirely
\* masked out (each of its pairs has its key index above its query index);
\* with causal = false the first query tile starts at 0 and no tile is
\* skipped.
C15_CausalSkip ==
  Done =>
    \A ks \in KeyTileStarts :
      LET first == IF p.causal THEN TileFloor(ks, kBlockSizeI) ELSE 0
          cs    == CallsOfKey(ks)
      IN /\ Len(cs) >= 1 => cs[1].query_start = first
         /\ Len(cs) = 0 => first >= p.num_queries
         /\ \A qs \in QueryTileStarts :
              Skipped(qs, ks) => p.causal /\ EntirelyMasked(qs, ks)

\* C15 witness: a finished causal run in which a key tile skipped a query
\* tile and processed a later one
C15_Witness ==
  /\ Done
  /\ p.causal
  /\ \E ks \in KeyTileStarts :
       /\ Skipped(0, ks)
       /\ Len(CallsOfKey(ks)) >= 1
       /\ CallsOfKey(ks)[1].query_start > 0

-----------------------------------------------------------------------------
(* C16 *)

\* the multiples of B in [from, to)
MultiplesIn(B, from, to) == {m \in from .. (to - 1) : m % B = 0}

\* the pairs <<query_start, key_start>> C16 names: key_start a multiple of
\* kBlockSizeJ in [0, num_keys), query_start a multiple of kBlockSizeI from
\* the first query tile of the key tile up to num_queries
ScheduledPairs ==
  UNION {{<<qs, ks>> :
            qs \in MultiplesIn(kBlockSizeI,
                               IF p.causal THEN TileFloor(ks, kBlockSizeI)
                               ELSE 0,
                               p.num_queries)} :
         ks \in MultiplesIn(kBlockSizeJ, 0, p.num_keys)}

CalledPairs ==
  {<<calls[i].query_start, calls[i].key_start>> : i \in 1 .. Len(calls)}

\* the calls whose tile holds the pair (q, k)
Covering(q, k) ==
  {i \in 1 .. Len(calls) :
     /\ calls[i].query_start <= q
     /\ q < calls[i].query_start + calls[i].num_queries_in_block
     /\ calls[i].key_start <= k
     /\ k < calls[i].key_start + calls[i].num_keys_in_block}

\* processBlockIJ has been called exactly once for each scheduled pair and
\* for no other; without causal that is ceil(num_queries / kBlockSizeI) x
\* ceil(num_keys / kBlockSizeJ) calls and each query row meets each key
\* column in exactly one of them (examined on the first and the last key
\* column of every key tile)
ExactlyScheduled ==
  /\ CalledPairs = ScheduledPairs
  /\ Len(calls) = Cardinality(ScheduledPairs)
  /\ ~p.causal =>
       /\ Len(calls) = ceil_div(p.num_queries, kBlockSizeI) *
                         ceil_div(p.num_keys, kBlockSizeJ)
       /\ \A q \in 0 .. (p.num_queries - 1) :
            \A k \in {j \in 0 .. (p.num_keys - 1) :
                        j % kBlockSizeJ \in {0, kBlockSizeJ - 1} \/
                        j = p.num_keys - 1} :
              Cardinality(Covering(q, k)) = 1

\* C16: for every num_queries >= 0 and num_keys >= 0 the scheduler
\* terminates, having called processBlockIJ exactly once for each pair
\* (query_start, key_start) with key_start a multiple of kBlockSizeJ in
\* [0, num_keys) and query_start a multiple of kBlockSizeI in
\* [getQueryStart(key_start), num_queries), and it never calls it for any
\* other pair; without causal every in-range element is covered by exactly
\* one tile and ceil(num_queries / kBlockSizeI) x ceil(num_keys /
\* kBlockSizeJ) tiles are processed.
C16_SchedulerTerminates ==
  /\ <>(Done /\ ExactlyScheduled)
  /\ [](CalledPairs \subseteq ScheduledPairs /\
        Len(calls) = Cardinality(CalledPairs))

\* C16 witness: a finished causal run over partial tiles in which some pairs
\* were skipped
C16_Witness ==
  /\ Done
  /\ p.causal
  /\ Len(calls) >= 3
  /\ p.num_queries % kBlockSizeI # 0
  /\ Len(calls) < ceil_div(p.num_queries, kBlockSizeI) *
                    ceil_div(p.num_keys, kBlockSizeJ)

-----------------------------------------------------------------------------
(* C17 *)

\* the positions in calls of the calls made for key tile ks
CallIndexesOfKey(ks) == {i \in 1 .. Len(calls) : calls[i].key_start = ks}

\* C17: in every processBlockIJ call isFirstQuery is true exactly when the
\* call is the first one made for its key tile, and isLastQuery is true
\* exactly when it is the last one; so when kernel() finishes every key tile
\* with at least one processed query tile has exactly one call with
\* isFirstQuery and exactly one with isLastQuery.
C17_FirstLastQuery ==
  /\ \A i \in 1 .. Len(calls) :
       LET same == CallIndexesOfKey(calls[i].key_start)
       IN /\ calls[i].isFirstQuery <=> (\A j \in same : i <= j)
          /\ calls[i].isLastQuery => (\A j \in same : j <= i)
          /\ Done => ((\A j \in same : j <= i) => calls[i].isLastQuery)
  /\ Done =>
       \A ks \in KeyTileStarts :
         CallIndexesOfKey(ks) # {} =>
           /\ Cardinality({i \in CallIndexesOfKey(ks) :
                             calls[i].isFirstQuery}) = 1
           /\ Cardinality({i \in CallIndexesOfKey(ks) :
                             calls[i].isLastQuery}) = 1

\* C17 witness: a finished causal run in which one key tile's first call is
\* not query tile 0, and another key tile's first call is not its last
C17_Witness ==
  /\ Done
  /\ p.causal
  /\ \E i \in 1 .. Len(calls) :
       calls[i].query_start > 0 /\ calls[i].isFirstQuery
  /\ \E i \in 1 .. Len(calls) :
       calls[i].isFirstQuery /\ ~calls[i].isLastQuery

-----------------------------------------------------------------------------
(* C18 *)

\* the positions in calls of the calls made for query tile qs
CallIndexesOfQuery(qs) == {i \in 1 .. Len(calls) : calls[i].query_start = qs}

\* the epilogue writes to grad_query
GradQFlushes == {i \in 1 .. Len(epi_log) : epi_log[i].dst = "gq"}

\* C18: for dQ, isFirst (key_start == 0) is true exactly on the first key
\* tile that processes the query tile and isLast exactly on the last one;
\* hence every query tile's dQ is flushed by exactly one key tile, and no key
\* tile processes the query tile after the flush.
C18_GradQFirstLast ==
  /\ \A i \in 1 .. Len(calls) :
       LET qs   == calls[i].query_start
           ks   == calls[i].key_start
           same == CallIndexesOfQuery(qs)
       IN /\ GradQIsFirst(ks) <=> (\A j \in same : i <= j)
          /\ GradQIsLast(qs, ks) => (\A j \in same : j <= i)
          /\ Done => ((\A j \in same : j <= i) => GradQIsLast(qs, ks))
  /\ \A e \in GradQFlushes :
       /\ GradQIsLast(epi_log[e].query_start, epi_log[e].key_start)
       /\ \A i \in CallIndexesOfQuery(epi_log[e].query_start) :
            calls[i].key_start <= epi_log[e].key_start
  /\ Done =>
       \A qs \in QueryTileStarts : \A c \in ColBlocks(p.head_dim, GradQ_kN) :
         Cardinality({e \in GradQFlushes :
                        epi_log[e].query_start = qs /\ epi_log[e].col = c}) = 1

\* C18 witness: a finished causal run in which a query tile's dQ went through
\* several key tiles and was flushed before the last key tile of the run
C18_Witness ==
  /\ Done
  /\ p.causal
  /\ \E e \in GradQFlushes :
       /\ Cardinality(CallIndexesOfQuery(epi_log[e].query_start)) >= 2
       /\ epi_log[e].key_start + kBlockSizeJ < p.num_keys

-----------------------------------------------------------------------------
(* C19 *)

\* the epilogue writes to destination dst ("gk" or "gv") for key tile ks
FlushesOf(dst, ks) ==
  {i \in 1 .. Len(epi_log) : epi_log[i].dst = dst /\ epi_log[i].row = ks}

\* the query tiles C16 schedules for key tile ks have all been processed
AllQueryTilesDone(ks) ==
  {pr \in ScheduledPairs : pr[2] = ks} \subseteq CalledPairs

\* C19: in the kOutputInRF mode the dV and dK accumulators are cleared at the
\* start of every key tile, nothing is written to grad_value, grad_key or
\* their scratch areas while the query tiles of the key tile are processed,
\* and each key tile is flushed exactly once, after all its query tiles, as
\* an overwrite of the sum of their contributions: all zeros for a key tile
\* with no processed query tile.
C19_RegisterAccumulators ==
  kOutputInRF =>
    /\ (pc \in {"query_loop", "last_query_loop", "matmul_qk"} /\
        Len(CallsOfKey(key_start)) = 0) => output_frags = ClearedFrags
    /\ \A i \in 1 .. Len(gmem_log) : gmem_log[i].area \notin {"gk", "gv"}
    /\ \A i \in 1 .. Len(epi_log) :
         epi_log[i].dst \in {"gk", "gv"} =>
           /\ ~epi_log[i].in_block
           /\ epi_log[i].first
           /\ AllQueryTilesDone(epi_log[i].row)
           /\ Cardinality(FlushesOf(epi_log[i].dst, epi_log[i].row)) = 1
           /\ ReadCell(IF epi_log[i].dst = "gk" THEN grad_key ELSE grad_value,
                       <<epi_log[i].row, 0>>) =
                SumOf(CallsOfKey(epi_log[i].row), 0)
    /\ Done =>
         \A ks \in KeyTileStarts :
           /\ Cardinality(FlushesOf("gk", ks)) = 1
           /\ Cardinality(FlushesOf("gv", ks)) = 1

\* C19 witness: a finished causal run of a register-resident variant in which
\* one key tile accumulated over two query tiles and another was flushed as
\* zeros without any
C19_Witness ==
  /\ Done
  /\ kOutputInRF
  /\ \E ks \in KeyTileStarts : Len(CallsOfKey(ks)) >= 2
  /\ \E ks \in KeyTileStarts :
       /\ Len(CallsOfKey(ks)) = 0
       /\ ReadCell(grad_key, <<ks, 0>>) = Zero
       /\ ReadCell(grad_value, <<ks, 0>>) = Zero

-----------------------------------------------------------------------------
(* C20 *)

\* the epilogue writes that reached the destination tile of write i before it
EarlierWrites(i) ==
  {j \in 1 .. (i - 1) :
     /\ epi_log[j].dst = epi_log[i].dst
     /\ epi_log[j].row = epi_log[i].row
     /\ epi_log[j].col = epi_log[i].col}

\* no destination tile holds anything that was read from memory nobody had
\* written
NothingFromUnwritten(mem) == \A k \in DOMAIN mem : mem[k].val.valid

\* C20: accumulateInGmem overwrites the destination when first is true and
\* adds to it in place otherwise; in every run the first write that reaches
\* a destination tile of grad_query, grad_key or grad_value is an overwrite,
\* and an add-mode write only reads a destination range that an earlier
\* write of the same pass has covered, so no gradient is built on memory
\* that was never written.
C20_FirstWriteOverwrites ==
  /\ \A i \in 1 .. Len(epi_log) :
       /\ EarlierWrites(i) = {} => epi_log[i].first
       /\ ~epi_log[i].first =>
            \E j \in EarlierWrites(i) :
              /\ epi_log[j].rows >= epi_log[i].rows
              /\ epi_log[j].cols >= epi_log[i].cols
  /\ NothingFromUnwritten(grad_query)
  /\ NothingFromUnwritten(grad_key)
  /\ NothingFromUnwritten(grad_value)

\* C20 witness: a finished run of a spilling variant in which the epilogue
\* has written tiles of all three gradients from inside processBlockIJ
C20_Witness ==
  /\ Done
  /\ ~kOutputInRF
  /\ \A d \in {"gq", "gk", "gv"} :
       \E i \in 1 .. Len(epi_log) :
         epi_log[i].dst = d /\ epi_log[i].in_block /\ epi_log[i].first
  /\ Len(calls) >= 4

-----------------------------------------------------------------------------
(* C21 *)

\* the tile of a call lies fully inside the problem
FullyInside(c) ==
  /\ c.query_start + kBlockSizeI <= p.num_queries
  /\ c.key_start + kBlockSizeJ <= p.num_keys

\* C21: processBlockIJ<true> is called only for tiles that lie fully inside
\* the problem; every final partial query tile and every tile of the final
\* partial key tile goes through processBlockIJ<false>; and in every call
\* 1 <= num_queries_in_block <= kBlockSizeI and 1 <= num_keys_in_block <=
\* kBlockSizeJ, also with causal = true and num_keys > num_queries.
C21_BoundsChecked ==
  \A i \in 1 .. Len(calls) :
    /\ calls[i].skipBoundsChecks => FullyInside(calls[i])
    /\ (calls[i].query_start + kBlockSizeI > p.num_queries \/
        calls[i].key_start + kBlockSizeJ > p.num_keys) =>
         ~calls[i].skipBoundsChecks
    /\ 1 <= calls[i].num_queries_in_block
    /\ calls[i].num_queries_in_block <= kBlockSizeI
    /\ 1 <= calls[i].num_keys_in_block
    /\ calls[i].num_keys_in_block <= kBlockSizeJ
    /\ calls[i].query_start + calls[i].num_queries_in_block <= p.num_queries
    /\ calls[i].key_start + calls[i].num_keys_in_block <= p.num_keys

\* C21 witness: a finished run with more keys than queries that made
\* unchecked calls, a checked call on a full query tile of the partial last
\* key tile, and a checked call on the partial last query tile
C21_Witness ==
  /\ Done
  /\ p.num_keys > p.num_queries
  /\ \E i \in 1 .. Len(calls) : calls[i].skipBoundsChecks
  /\ \E i \in 1 .. Len(calls) :
       /\ ~calls[i].skipBoundsChecks
       /\ calls[i].num_queries_in_block = kBlockSizeI
       /\ calls[i].num_keys_in_block < kBlockSizeJ
  /\ \E i \in 1 .. Len(calls) :
       /\ ~calls[i].skipBoundsChecks
       /\ calls[i].num_queries_in_block < kBlockSizeI

-----------------------------------------------------------------------------
(* C22 *)

\* the computeDelta loop has just finished and no tile was processed yet
DeltaComputed == pc = "key_loop" /\ key_start = 0 /\ calls = <<>>

\* the delta array holds a stored value for exactly the rows below
\* num_queries
DeltaRows == DOMAIN delta = 0 .. (p.num_queries - 1)

\* the query_start values of the computeDelta loop in kernel()
DeltaCalls ==
  {i * kBlockSizeI : i \in 0 .. ((p.num_queries - 1) \div kBlockSizeI)}

\* every store to row q comes from the one computeDelta call of the tile of
\* q, and every thread that stores holds the sum over its whole line
SameValueStored(q, n, nt, nq, I) ==
  LET qs == (q \div I) * I
  IN /\ \A other \in DeltaCalls \ {qs} : DeltaWriters(other, q, n, nt, nq) = {}
     /\ \A t \in DeltaWriters(qs, q, n, nt, nq) :
          Reduced(t, n) = LineThreads(laneRow(t, n), n, nt)

\* the tile in shared storage holds the delta of the rows of the current
\* query tile, and 0 for the rows from num_queries on
DiOfTile ==
  /\ DOMAIN di = 0 .. (kBlockSizeI - 1)
  /\ \A r \in 0 .. (kBlockSizeI - 1) :
       di[r] = IF query_start + r < p.num_queries THEN query_start + r
               ELSE -1

\* C22 as stated: when the kernel computes delta, every row below
\* num_queries receives exactly one store
C22_DeltaStoredOnce ==
  (kKernelComputesDelta /\ DeltaComputed) =>
    (DeltaRows /\ \A q \in DOMAIN delta : delta[q] = 1)

\* C22: when kKernelComputesDelta holds, delta_ptr[q] is written by one
\* computeDelta call for every q < num_queries and for no other row, by
\* each of the kNumThreadsPerLine threads of the row with the same value;
\* the writes are complete, and a block barrier has passed, before the first
\* processBlockIJ call; the main loop never writes delta again; and every
\* tile loads the delta of its own rows, with 0 for rows >= num_queries.
C22_DeltaBeforeTiles ==
  /\ [](kKernelComputesDelta =>
          /\ DeltaComputed =>
               /\ DeltaRows
               /\ LET n == kNumThreadsPerLine
                      nt == kNumThreads
                      nq == p.num_queries
                      I == kBlockSizeI
                  IN \A q \in DOMAIN delta :
                       delta[q] = n /\ SameValueStored(q, n, nt, nq, I)
               /\ sync.dirty = {}
          /\ pc \in {"matmul_qk", "doivj"} => DiOfTile
          /\ \A h \in sync.hazards : "delta" \notin {h.region, h.other})
  /\ [][pc # "entry" => delta' = delta]_vars

\* C22 witness: a later, partial query tile is being processed with the
\* delta of its rows loaded and zeros behind them
C22_Witness ==
  /\ kKernelComputesDelta
  /\ pc = "doivj"
  /\ query_start > 0
  /\ Len(calls) >= 2
  /\ \E r \in DOMAIN di : di[r] = query_start + r /\ delta[di[r]] > 0
  /\ \E r \in DOMAIN di : di[r] = -1

-----------------------------------------------------------------------------
(* C23 *)

\* the calls whose score-gradient tile has been formed
CallsPastDOIVJ ==
  Len(calls) - (IF pc \in {"grad_v", "doivj"} THEN 1 ELSE 0)

\* the k-th stored tile is the tile of the k-th call: its own region of the
\* bias gradient, the in-bounds rows and columns only
OwnRegion(k) ==
  LET c == calls[k]
      b == grad_bias[k]
  IN /\ b.addr = p.grad_bias_ptr + c.query_start * p.gB_strideM + c.key_start
     /\ b.strideM = p.gB_strideM
     /\ b.rows = c.num_queries_in_block
     /\ b.cols = c.num_keys_in_block
     /\ c.query_start + b.rows <= p.num_queries
     /\ c.key_start + b.cols <= p.num_keys

\* Probability x (dProbability - Delta) of the tile of call k, times a
\* scale factor
ScoreGradient(k, scale) ==
  [query_start |-> calls[k].query_start, key_start |-> calls[k].key_start,
   masked |-> p.causal, factor |-> "ones", di |-> calls[k].query_start,
   scale |-> scale]

\* the tile the dQ and dK products read is the score gradient of the
\* current call times the softmax scale
ScaledConsumed ==
  pc \in {"grad_q", "grad_k"} =>
    tmp = ScoreGradient(Len(calls), "p.scale")

\* C23 as stated: the tile stored for the bias gradient carries the softmax
\* scale, as the tile the dQ and dK products consume does
C23_BiasGradScaled ==
  (p.grad_bias_ptr # 0 /\ pc \in {"grad_q", "grad_k"}) =>
    grad_bias[Len(grad_bias)].value = tmp

\* C23: when a bias gradient is requested, the tile written for a processed
\* (query tile, key tile) is Probability x (dProbability - Delta), without
\* the softmax scale that the tile consumed by the dQ and dK products
\* carries; it is written once per processed tile, to the tile's own
\* (query_start, key_start) region, restricted to the in-bounds rows and
\* columns; without a bias gradient nothing is written.
C23_BiasGradTile ==
  Advanced =>
    /\ p.grad_bias_ptr = 0 => grad_bias = <<>>
    /\ p.grad_bias_ptr # 0 =>
         /\ Len(grad_bias) = CallsPastDOIVJ
         /\ \A k \in 1 .. Len(grad_bias) :
              OwnRegion(k) /\ grad_bias[k].value = ScoreGradient(k, "one")
    /\ ScaledConsumed

\* C23 witness: the bias-gradient tile of a partial tile away from the
\* origin has been stored, after the tiles of earlier calls
C23_Witness ==
  /\ p.grad_bias_ptr # 0
  /\ pc = "grad_q"
  /\ query_start > 0
  /\ key_start > 0
  /\ Len(grad_bias) >= 3
  /\ grad_bias[Len(grad_bias)].rows < kBlockSizeI
  /\ grad_bias[Len(grad_bias)].cols < kBlockSizeJ
  /\ grad_bias[Len(grad_bias)].addr =
       p.grad_bias_ptr + query_start * p.gB_strideM + key_start

-----------------------------------------------------------------------------
(* C24 *)

\* the tiles that one warp writes to shared storage and another one reads
SharedTiles ==
  {"di", "attn_shared_storage", "zij", "tmp_shared_storage",
   "tmpT_shared_storage"}

\* the tiles among them that the variant writes
WrittenTiles ==
  {"di", "attn_shared_storage", "tmp_shared_storage"} \cup
  (IF kApplyDropout THEN {"zij"} ELSE {}) \cup
  (IF kIsTransposedA THEN {} ELSE {"tmpT_shared_storage"})

\* C24: di, attn_shared_storage, zij, tmp_shared_storage and
\* tmpT_shared_storage are never read while a write to them, or to a member
\* of shared storage overlaying them, has not been followed by a
\* __syncthreads; and in a finished run that processed a tile each of them
\* that the variant writes was read after its write and a barrier.
C24_TilesReadAfterBarrier ==
  /\ \A h \in sync.hazards : h.kind = "raw" => h.region \notin SharedTiles
  /\ sync.handed \subseteq WrittenTiles \cup {"delta"}
  /\ (pc = "done" /\ calls # <<>>) => WrittenTiles \subseteq sync.handed

\* C24 witness: a finished run with dropout, on a variant that keeps the
\* transposed tile, in which all five tiles were written, passed a barrier
\* and were read, over several tiles
C24_Witness ==
  /\ pc = "done"
  /\ Len(calls) > 1
  /\ SharedTiles \subseteq sync.handed
  /\ sync.barriers > 8

-----------------------------------------------------------------------------
(* C25 *)

\* C25: a member of shared storage is never written, or taken over by a
\* matmul or an epilogue, while an access to another member overlaying it
\* has not been followed by a __syncthreads: neither the bias tile after
\* the operands of the Q.K matmul, nor the probability tile after the bias
\* tile, nor the score-gradient tiles after the probability tile.
C25_BarrierBetweenPurposes ==
  \A h \in sync.hazards : h.region = h.other

-----------------------------------------------------------------------------
(* C26 *)

\* the processBlockIJ call on tile (qs, ks)
CallIndex(qs, ks) ==
  CHOOSE i \in 1 .. Len(calls) :
    calls[i].query_start = qs /\ calls[i].key_start = ks

\* the last call before the one of log entry e that contributed to the
\* same accumulator: the same query tile for dQ, the same key tile for dK
\* and dV; 0 when there is none
PrevContributor(e) ==
  LET i == CallIndex(e.query_start, e.key_start)
      S == {j \in 1 .. (i - 1) :
              IF e.area = "gq" THEN calls[j].query_start = e.query_start
              ELSE calls[j].key_start = e.key_start}
  IN IF S = {} THEN 0 ELSE CHOOSE j \in S : \A k \in S : k <= j

\* the last store to the slot of log entry n before it; 0 when there is
\* none
LastStoreBefore(n) ==
  LET S == {m \in 1 .. (n - 1) : /\ gmem_log[m].op = "store"
                                 /\ gmem_log[m].addr = gmem_log[n].addr}
  IN IF S = {} THEN 0 ELSE CHOOSE m \in S : \A k \in S : k <= m

\* the load of log entry n reads the store of the previous contributing
\* tile for the same column block
LoadsPreviousStore(n) ==
  LET e == gmem_log[n]
      m == LastStoreBefore(n)
      j == PrevContributor(e)
  IN /\ m > 0
     /\ j > 0
     /\ gmem_log[m].area = e.area
     /\ gmem_log[m].col = e.col
     /\ gmem_log[m].query_start = calls[j].query_start
     /\ gmem_log[m].key_start = calls[j].key_start
     /\ IF e.area = "gq"
          THEN calls[j].key_start = e.key_start - kBlockSizeJ
          ELSE calls[j].query_start = e.query_start - kBlockSizeI

\* C26: every load of a dV or dK accumulator reads the slot that the
\* previous query tile of the same key tile stored for the same column
\* block, every load of a dQ accumulator the slot that the previous key
\* tile stored for the same query tile and column block; no other store to
\* the slot lies in between, and what is in the workspace was stored in
\* this pass.
C26_LoadsPreviousStore ==
  /\ \A n \in 1 .. Len(gmem_log) :
       gmem_log[n].op = "load" => LoadsPreviousStore(n)
  /\ \A a \in DOMAIN workspace :
       workspace[a].valid /\ workspace[a].terms # <<>>

\* C26 witness: a finished causal run that loaded dQ, dK and dV
\* accumulators, some of them for a second column block
C26_Witness ==
  /\ Done
  /\ p.causal
  /\ \A a \in {"gq", "gk", "gv"} :
       \E n \in 1 .. Len(gmem_log) :
         /\ gmem_log[n].op = "load"
         /\ gmem_log[n].area = a
         /\ gmem_log[n].col > 0

-----------------------------------------------------------------------------
(* C27 *)

\* the first element and the number of elements of the spill area of a
\* gradient
AreaStart(a) ==
  CASE a = "gq" -> p.workspace_gq
    [] a = "gv" -> p.workspace_gv
    [] a = "gk" -> workspace_gk(p)

AreaElements(a) ==
  CASE a = "gq" -> workspace_elements_gq(p)
    [] a = "gv" -> workspace_elements_gv(p)
    [] a = "gk" -> workspace_elements_gk(p)

\* the index of the slot of log entry e, as the claim gives it
SlotIndex(e) ==
  IF e.area = "gq"
    THEN (e.col \div kBlockSizeJ) +
           (e.query_start \div kBlockSizeI) * ceil_div(p.head_dim, kBlockSizeJ)
    ELSE e.col \div kBlockSizeI

\* C27: every scratch slot loaded or stored starts at its slot index times
\* kBlockSizeI kBlockSizeJ elements inside the area of its own gradient and
\* ends inside it, so inside the part of the slab of this execution unit;
\* two accesses of different gradients never take the same slot, and two
\* dQ accesses take the same slot only for the same query tile and column
\* block.
C27_SlotsInsideAreas ==
  /\ \A n \in 1 .. Len(gmem_log) :
       LET e == gmem_log[n]
       IN /\ e.addr = AreaStart(e.area) +
                        SlotIndex(e) * (kBlockSizeI * kBlockSizeJ)
          /\ e.addr + kElementsStored <= AreaStart(e.area) +
                                           AreaElements(e.area)
          /\ e.addr + kElementsStored <= p.workspace + workspace_strideBH(p)
  /\ \A n, m \in 1 .. Len(gmem_log) :
       gmem_log[n].addr = gmem_log[m].addr =>
         /\ gmem_log[n].area = gmem_log[m].area
         /\ gmem_log[n].col = gmem_log[m].col
         /\ gmem_log[n].area = "gq" =>
              gmem_log[n].query_start = gmem_log[m].query_start

\* C27 witness: a finished run that spilled all three gradients, dQ for
\* several query tiles and column blocks up to the last slot of its area
C27_Witness ==
  /\ Done
  /\ \A a \in {"gk", "gv"} :
       \E n \in 1 .. Len(gmem_log) :
         gmem_log[n].area = a /\ gmem_log[n].col > 0
  /\ \E n \in 1 .. Len(gmem_log) :
       /\ gmem_log[n].area = "gq"
       /\ gmem_log[n].query_start > 0
       /\ gmem_log[n].col > 0
       /\ gmem_log[n].addr + kElementsStored =
            p.workspace_gq + workspace_elements_gq(p)

-----------------------------------------------------------------------------
(* C28 *)

\* the i-th prefetch is the one made for the i-th processBlockIJ call: by
\* kernel() for the first, by the call before it, with the pair of
\* incrIteration, for the others
PrefetchedFor(i) ==
  /\ prefetch[i].query_start = calls[i].query_start
  /\ prefetch[i].key_start = calls[i].key_start
  /\ prefetch[i].loaded
  /\ IF i = 1
       THEN /\ prefetch[i].query_start = 0
            /\ prefetch[i].key_start = 0
            /\ prefetch[i].kForceReloadK
       ELSE prefetch[i].kForceReloadK =
              (calls[i].key_start # calls[i - 1].key_start)

\* C28: with the prologues, kernel() prefetches the operands of tile (0, 0),
\* which is the first tile processed; every processBlockIJ call prefetches
\* once, the tile of the call that follows it when there is one, reloading
\* the K operand exactly when the key tile changes; the prefetch of the
\* last call is for a tile out of range and loads nothing. Without the
\* prologues nothing is prefetched.
C28_PrefetchIsNextTile ==
  IF kPrologueQK
    THEN /\ pc \notin {"host", "rejected", "entry"} => Len(prefetch) >= 1
         /\ Len(prefetch) <= Len(calls) + 1
         /\ Len(prefetch) >= Len(calls)
         /\ \A i \in 1 .. Len(calls) : PrefetchedFor(i)
         /\ pc \in {"grad_v", "doivj", "grad_q", "grad_k"} =>
              Len(prefetch) = Len(calls)
         /\ pc = "matmul_qk" =>
              /\ Len(prefetch) = Len(calls) + 1
              /\ prefetch[Len(prefetch)].query_start = query_start
              /\ prefetch[Len(prefetch)].key_start = key_start
              /\ prefetch[Len(prefetch)].loaded
         /\ (pc = "done" /\ calls # <<>>) =>
              /\ Len(prefetch) = Len(calls) + 1
              /\ ~prefetch[Len(prefetch)].loaded
    ELSE prefetch = <<>>

\* C28 witness: a finished causal run with the prologues over several
\* query and key tiles, with prefetches that reloaded K and prefetches that
\* kept it
C28_Witness ==
  /\ kPrologueQK
  /\ pc = "done"
  /\ p.causal
  /\ \E i, j \in 2 .. Len(calls) :
       /\ prefetch[i].kForceReloadK
       /\ prefetch[i].query_start > 0
       /\ ~prefetch[j].kForceReloadK
  /\ ~prefetch[Len(prefetch)].loaded

-----------------------------------------------------------------------------
(* C29 *)

\* the offset advance_to_block leaves for the unit of (batch b, head h) is
\* b num_heads num_queries num_keys + h num_queries num_keys
OffsetExact(b, h) ==
  LET u == advance_to_block([p EXCEPT !.batch_id = b, !.head_id = h])
  IN IsProduct3(u.dropout_batch_head_rng_offset -
                  h * (p.num_queries * p.num_keys),
                b, p.num_heads, p.num_queries * p.num_keys)

\* the skipahead argument of the thread that generates mask element
\* (qrow, kcol) is (query_start + thread_i) num_keys + key_start +
\* thread_start_j
SkipExact(qrow, kcol) ==
  LET qs  == (qrow \div kBlockSizeI) * kBlockSizeI
      ks  == (kcol \div kBlockSizeJ) * kBlockSizeJ
      nqb == NumQueriesInBlock(FALSE, qs)
      nkb == NumKeysInBlock(FALSE, ks)
      t   == ZijWriter(qrow - qs, kcol - ks, nqb, nkb)
  IN /\ thread_i(t, nqb, nkb) = qrow - qs
     /\ ZijSkip(t, nqb, nkb, qs, ks) =
          qrow * p.num_keys + ks + thread_start_j(t, nqb, nkb)

\* C29: for every mask element whose position was computed,
\* dropout_batch_head_rng_offset of its unit and the skipahead argument of
\* its thread have the values of the formulas in unbounded integers.
C29_OffsetsWithoutWraparound ==
  \A e \in probe :
    /\ OffsetExact(e.elt.batch_id, e.elt.head_id)
    /\ SkipExact(e.elt.query, e.elt.key)

-----------------------------------------------------------------------------
(* C30 *)

\* the iterations of a column loop "for (col = 0; col < limit; col += kN)"
ColumnIterations(limit, kN) == (limit + kN - 1) \div kN

\* the __syncthreads one processBlockIJ call passes: lines 1197, 1363 and
\* 1432, two for each GradV column and 1524, 1574, 1671 and 1690, two for
\* each GradQ column, two for each GradK column
BarriersOfCall ==
  3 + 2 * ColumnIterations(IF kOutputInRF THEN 1 ELSE p.head_dim_value,
                           GradV_kN)
    + 4 + 2 * ColumnIterations(p.head_dim, GradQ_kN)
    + 2 * ColumnIterations(IF kOutputInRF THEN 1 ELSE p.head_dim, GradK_kN)

\* the __syncthreads of a whole run: line 1090 after computeDelta, the
\* calls, and line 1142 for each iteration of the key loop
BarriersOfRun ==
  (IF kKernelComputesDelta THEN 1 ELSE 0) +
  Len(calls) * BarriersOfCall +
  (p.num_keys \div kBlockSizeJ)

\* C30: a launched kernel reaches the end of kernel(); no __shfl_xor_sync of
\* computeDelta is executed by a part of a warp only; and the barriers the
\* unit has passed at the end are those of its calls and loop iterations,
\* a number that depends on the problem and the variant alone, whatever the
\* sizes, the causal flag, the bias, the dropout and the tiles are.
C30_RunsToCompletion ==
  /\ (pc = "entry") ~> Done
  /\ [](sync.diverged = {})
  /\ [](Done => sync.barriers = BarriersOfRun)

\* C30 witness: a finished run with dropout, a bias and a bias gradient
\* over partial tiles, whose computeDelta call shuffled in warps with rows
\* beyond num_queries
C30_Witness ==
  /\ Done
  /\ kApplyDropout
  /\ p.bias_ptr # 0
  /\ p.grad_bias_ptr # 0
  /\ kNumThreadsPerLine > 1
  /\ p.num_queries % kBlockSizeI # 0
  /\ Len(calls) >= 2
  /\ sync.barriers > 20

=============================================================================
